---- MODULE Spec2Model ----
(***************************************************************************)
(* A model of the FEC recovery analysis library (package fecanalysis):     *)
(* protection masks, the implicit recovery graph, multi-source BFS, the    *)
(* recovery characteristics search with its combination enumeration, and   *)
(* the loss models with the Gilbert-Elliott memoization cache.             *)
(***************************************************************************)
EXTENDS Integers, Sequences, FiniteSets, TLC

(***************************************************************************)
(* Bounds of the model.                                                    *)
(***************************************************************************)
\* Largest number of media packets of a mask of the recovery-graph specification.
MaxN == 3
\* Largest number of FEC packets of a mask of the recovery-graph specification.
MaxK == 2
\* Largest N+K of a mask of the recovery-graph specification.
MaxBits == 5
\* Largest vertex count, edge count and source-list length of the BFS specification.
MaxVertices == 3
MaxEdges == 2
MaxSources == 2
\* Largest n of the combination-enumeration specification.
MaxCombN == 5
\* Largest N+K of the recovery-characteristics specification.
MaxTotal == 3
\* Probabilities of the loss models are the multiples of 1/ProbDen in [0,1].
ProbDen == 2
\* Largest number of packets N of a CalculateProbability call.
MaxLen == 2
\* Concurrent callers of one Gilbert-Elliott model, and calls they start in all.
NumThreads == 2
MaxOps == 3

VARIABLES
    graph,              \* the Graph handed to BFS / queried with GetEdges
    sources,            \* BFS argument: the source list
    visited,            \* BFS local: visited []bool
    reachableVertices,  \* BFS local and result
    queue,              \* BFS local: the FIFO queue
    dequeued,           \* the vertices BFS has taken from the queue, in order
    bfsPc,              \* position of the BFS call: idle, loop, done
    edgesOut,           \* the last GetEdges call: its vertex and its result
    gen,                \* a generateCombinations call: arguments, locals, position
    rcIn,               \* arguments of CalculateRecoveryCharacteristicsFromReachable
    rcOut,              \* its result
    model,              \* the GilbertElliotLossModel: parameters and steady state
    cache,              \* its cache map: cacheKey -> probability
    mutex,              \* its RWMutex: the readers and the writer holding it
    th,                 \* per caller: position in its call, arguments and locals
    ops,                \* calls started so far
    log,                \* completed calls of a sequential caller, in order
    numPackets,         \* N of the analysis configuration the callers work on
    printer,            \* printLossModelAnalysis: its models, loop index and sums
    maskQ,              \* a mask under IsProtected queries, and the last query
    ctor,               \* a mask handed to NewRecoveryGraph, and the graph's size
    lossQ,              \* a RandomLossModel and the last query of the loss models
    made,               \* an InterleavedMaskFactory.CreateMask call, its result and a query of it
    fleet               \* two GilbertElliotLossModel instances side by side

graphVars == <<graph, sources, visited, reachableVertices, queue, dequeued, bfsPc, edgesOut>>
combVars == <<gen>>
charVars == <<rcIn, rcOut>>

geVars == <<model, cache, mutex, th, ops, log, numPackets>>
printVars == <<printer>>
maskVars == <<maskQ>>
ctorVars == <<ctor>>
queryVars == <<lossQ>>
factoryVars == <<made>>
fleetVars == <<fleet>>

vars == <<graphVars, combVars, charVars, geVars, printVars, maskVars, ctorVars, queryVars, factoryVars, fleetVars>>

nonGraphVars == <<combVars, charVars, geVars, printVars, maskVars, ctorVars, queryVars, factoryVars, fleetVars>>
nonCombVars == <<graphVars, charVars, geVars, printVars, maskVars, ctorVars, queryVars, factoryVars, fleetVars>>
nonCharVars == <<graphVars, combVars, geVars, printVars, maskVars, ctorVars, queryVars, factoryVars, fleetVars>>
nonGeVars == <<graphVars, combVars, charVars, printVars, maskVars, ctorVars, queryVars, factoryVars, fleetVars>>
nonLossVars == <<graphVars, combVars, charVars, maskVars, ctorVars, queryVars, factoryVars, fleetVars>>
nonMaskVars == <<graphVars, combVars, charVars, geVars, printVars, ctorVars, queryVars, factoryVars, fleetVars>>
nonCtorVars == <<graphVars, combVars, charVars, geVars, printVars, maskVars, queryVars, factoryVars, fleetVars>>
nonQueryVars == <<graphVars, combVars, charVars, printVars, maskVars, ctorVars, factoryVars, fleetVars>>
nonFactoryVars ==
    <<graphVars, combVars, charVars, geVars, printVars, maskVars, ctorVars, queryVars, fleetVars>>
nonFleetVars ==
    <<graphVars, combVars, charVars, geVars, printVars, maskVars, ctorVars, queryVars, factoryVars>>

(***************************************************************************)
(* Bit operations on non-negative ints.                                    *)
(***************************************************************************)
\* 1 << i
Shl1(i) == 2 ^ i

\* (v & (1 << i)) != 0
Bit(v, i) == (v \div Shl1(i)) % 2 = 1

\* v &^ (1 << i)
ClearBit(v, i) == IF Bit(v, i) THEN v - Shl1(i) ELSE v

Range(s) == {s[i] : i \in DOMAIN s}

(***************************************************************************)
(* Masks.  SimpleMask is the matrix-backed mask of the graph tests,        *)
(* InterleavedMask the modular one.                                        *)
(***************************************************************************)
NewSimpleMask(protectionMatrix, n, k) ==
    [kind |-> "simple", protectionMatrix |-> protectionMatrix, n |-> n, k |-> k]

\* protectionMatrix[fecIndex][packetIndex], 0-based in the source.
SimpleMask_IsProtected(m, packetIndex, fecIndex) ==
    IF fecIndex < 0 \/ fecIndex >= Len(m.protectionMatrix) THEN FALSE
    ELSE IF packetIndex < 0 \/ packetIndex >= Len(m.protectionMatrix[fecIndex + 1]) THEN FALSE
    ELSE m.protectionMatrix[fecIndex + 1][packetIndex + 1]

\* An interleaved mask whose parity packets other than the first protect
\* nothing.
InterleavedMask_IsProtected_FirstParityOnly(m, packetIndex, fecIndex) ==
    IF packetIndex < 0 \/ packetIndex >= m.n \/ fecIndex < 0 \/ fecIndex >= m.k THEN FALSE
    ELSE packetIndex % m.k = fecIndex /\ fecIndex = 0

InterleavedMask_IsProtected(m, packetIndex, fecIndex) ==
    IF packetIndex < 0 \/ packetIndex >= m.n \/ fecIndex < 0 \/ fecIndex >= m.k THEN FALSE
    ELSE packetIndex % m.k = fecIndex

\* Mask.IsProtected, dispatched on the implementation.
IsProtected(m, packetIndex, fecIndex) ==
    IF m.kind = "simple" THEN SimpleMask_IsProtected(m, packetIndex, fecIndex)
    ELSE InterleavedMask_IsProtected(m, packetIndex, fecIndex)

(***************************************************************************)
(* RecoveryGraph.                                                          *)
(***************************************************************************)
\* Width of Go's int on the 64-bit builds.
IntBits == 64

\* A Go int that is a signed power of two or zero: sign * 2^exp.
PowerOfTwo(e) == [sign |-> 1, exp |-> e]

\* 1 << s on an int, for s >= 0: a bit shifted into the sign position makes
\* the value negative, a bit shifted past it is lost.
GoShl1(s) ==
    IF s >= IntBits THEN [sign |-> 0, exp |-> 0]
    ELSE IF s = IntBits - 1 THEN [sign |-> -1, exp |-> s]
    ELSE PowerOfTwo(s)

IntOf(w) == w.sign * Shl1(w.exp)

NewRecoveryGraph(mask) ==
    [kind |-> "recovery", numVertices |-> IntOf(GoShl1(mask.n + mask.k)),
     N |-> mask.n, K |-> mask.k, mask |-> mask]

canUseFECPacket_NoPresenceCheck(g, vertex, fecIndex) ==
    Bit(vertex, g.N + fecIndex)

canUseFECPacket_NoParityCheck(g, vertex, fecIndex) ==
    \A packetIndex \in 0..(g.N - 1) :
        IsProtected(g.mask, packetIndex, fecIndex) => Bit(vertex, packetIndex)

canUseFECPacket(g, vertex, fecIndex) ==
    /\ Bit(vertex, g.N + fecIndex)
    /\ \A packetIndex \in 0..(g.N - 1) :
           IsProtected(g.mask, packetIndex, fecIndex) => Bit(vertex, packetIndex)

RECURSIVE addRecoveryEdgesFrom(_, _, _, _, _)
addRecoveryEdgesFrom(g, edges, vertex, fecIndex, packetIndex) ==
    IF packetIndex >= g.N THEN edges
    ELSE LET destVertex == ClearBit(vertex, packetIndex)
             next == IF IsProtected(g.mask, packetIndex, fecIndex) /\ destVertex # vertex
                     THEN Append(edges, destVertex)
                     ELSE edges
         IN addRecoveryEdgesFrom(g, next, vertex, fecIndex, packetIndex + 1)

\* addRecoveryEdges that adds an edge to the vertex without the parity packet.
addRecoveryEdges_DropsParity(g, edges, vertex, fecIndex) ==
    Append(addRecoveryEdgesFrom(g, edges, vertex, fecIndex, 0),
           ClearBit(vertex, g.N + fecIndex))

addRecoveryEdges(g, edges, vertex, fecIndex) ==
    addRecoveryEdgesFrom(g, edges, vertex, fecIndex, 0)

RECURSIVE GetEdgesFrom(_, _, _, _)
GetEdgesFrom(g, edges, vertex, fecIndex) ==
    IF fecIndex >= g.K THEN edges
    ELSE LET next == IF canUseFECPacket(g, vertex, fecIndex)
                     THEN addRecoveryEdges(g, edges, vertex, fecIndex)
                     ELSE edges
         IN GetEdgesFrom(g, next, vertex, fecIndex + 1)

RecoveryGraph_GetEdges_NoLowerCheck(g, vertex) ==
    IF vertex >= g.numVertices THEN <<>>
    ELSE GetEdgesFrom(g, <<>>, vertex, 0)

\* nil is the empty sequence.
RecoveryGraph_GetEdges(g, vertex) ==
    IF vertex < 0 \/ vertex >= g.numVertices THEN <<>>
    ELSE GetEdgesFrom(g, <<>>, vertex, 0)

\* The calls of mask.IsProtected one GetEdges call makes, in order, as
\* <<packetIndex, fecIndex>>: canUseFECPacket asks up to the first protected
\* packet that is missing, addRecoveryEdges asks for every packet.
RECURSIVE canUseFECPacketQueriesFrom(_, _, _, _)
canUseFECPacketQueriesFrom(g, vertex, fecIndex, packetIndex) ==
    IF packetIndex >= g.N THEN <<>>
    ELSE IF IsProtected(g.mask, packetIndex, fecIndex) /\ ~Bit(vertex, packetIndex)
         THEN << <<packetIndex, fecIndex>> >>
         ELSE << <<packetIndex, fecIndex>> >>
              \o canUseFECPacketQueriesFrom(g, vertex, fecIndex, packetIndex + 1)

canUseFECPacketQueries(g, vertex, fecIndex) ==
    IF ~Bit(vertex, g.N + fecIndex) THEN <<>>
    ELSE canUseFECPacketQueriesFrom(g, vertex, fecIndex, 0)

addRecoveryEdgesQueries(g, fecIndex) ==
    [packetIndex \in 1..g.N |-> <<packetIndex - 1, fecIndex>>]

RECURSIVE GetEdgesQueriesFrom(_, _, _)
GetEdgesQueriesFrom(g, vertex, fecIndex) ==
    IF fecIndex >= g.K THEN <<>>
    ELSE canUseFECPacketQueries(g, vertex, fecIndex)
         \o (IF canUseFECPacket(g, vertex, fecIndex)
             THEN addRecoveryEdgesQueries(g, fecIndex) ELSE <<>>)
         \o GetEdgesQueriesFrom(g, vertex, fecIndex + 1)

RecoveryGraph_GetEdgesQueries(g, vertex) ==
    IF vertex < 0 \/ vertex >= g.numVertices THEN <<>>
    ELSE GetEdgesQueriesFrom(g, vertex, 0)

(***************************************************************************)
(* The Graph interface and BFS.                                            *)
(***************************************************************************)
\* SimpleGraph, the adjacency-list graph of the BFS tests.
NewSimpleGraph(numVertices) ==
    [kind |-> "simple", numVertices |-> numVertices,
     adjList |-> [v \in 0..(numVertices - 1) |-> <<>>]]

SimpleGraph_GetEdges(g, vertex) ==
    IF vertex >= 0 /\ vertex < g.numVertices THEN g.adjList[vertex] ELSE <<>>

SimpleGraph_AddEdge(g, source, destination) ==
    IF /\ source >= 0 /\ source < g.numVertices
       /\ destination >= 0 /\ destination < g.numVertices
    THEN [g EXCEPT !.adjList[source] = Append(@, destination)]
    ELSE g

NumVertices(g) == g.numVertices

GetEdges(g, vertex) ==
    IF g.kind = "recovery" THEN RecoveryGraph_GetEdges(g, vertex)
    ELSE SimpleGraph_GetEdges(g, vertex)

RECURSIVE SeedSources_NoVisitedCheck(_, _, _, _)
SeedSources_NoVisitedCheck(g, srcs, i, st) ==
    IF i > Len(srcs) THEN st
    ELSE LET source == srcs[i] IN
         IF source < 0 \/ source >= NumVertices(g)
         THEN SeedSources_NoVisitedCheck(g, srcs, i + 1, st)
         ELSE SeedSources_NoVisitedCheck(g, srcs, i + 1,
                  [visited |-> [st.visited EXCEPT ![source] = TRUE],
                   reachableVertices |-> Append(st.reachableVertices, source),
                   queue |-> Append(st.queue, source)])

\* The seeding loop of BFS over sources[i..].
RECURSIVE SeedSources(_, _, _, _)
SeedSources(g, srcs, i, st) ==
    IF i > Len(srcs) THEN st
    ELSE LET source == srcs[i] IN
         IF source < 0 \/ source >= NumVertices(g) THEN SeedSources(g, srcs, i + 1, st)
         ELSE IF ~st.visited[source]
              THEN SeedSources(g, srcs, i + 1,
                       [visited |-> [st.visited EXCEPT ![source] = TRUE],
                        reachableVertices |-> Append(st.reachableVertices, source),
                        queue |-> Append(st.queue, source)])
              ELSE SeedSources(g, srcs, i + 1, st)

RECURSIVE ProcessEdges_NoEnqueue(_, _, _, _)
ProcessEdges_NoEnqueue(g, edges, i, st) ==
    IF i > Len(edges) THEN st
    ELSE LET neighbor == edges[i] IN
         IF neighbor < 0 \/ neighbor >= NumVertices(g)
         THEN ProcessEdges_NoEnqueue(g, edges, i + 1, st)
         ELSE IF ~st.visited[neighbor]
              THEN ProcessEdges_NoEnqueue(g, edges, i + 1,
                       [visited |-> [st.visited EXCEPT ![neighbor] = TRUE],
                        reachableVertices |-> Append(st.reachableVertices, neighbor),
                        queue |-> st.queue])
              ELSE ProcessEdges_NoEnqueue(g, edges, i + 1, st)

RECURSIVE ProcessEdges_Revisit(_, _, _, _)
ProcessEdges_Revisit(g, edges, i, st) ==
    IF i > Len(edges) THEN st
    ELSE LET neighbor == edges[i] IN
         IF neighbor < 0 \/ neighbor >= NumVertices(g)
         THEN ProcessEdges_Revisit(g, edges, i + 1, st)
         ELSE ProcessEdges_Revisit(g, edges, i + 1,
                  [visited |-> [st.visited EXCEPT ![neighbor] = TRUE],
                   reachableVertices |-> Append(st.reachableVertices, neighbor),
                   queue |-> Append(st.queue, neighbor)])

\* The loop of BFS over the edges of the dequeued vertex, edges[i..].
RECURSIVE ProcessEdges(_, _, _, _)
ProcessEdges(g, edges, i, st) ==
    IF i > Len(edges) THEN st
    ELSE LET neighbor == edges[i] IN
         IF neighbor < 0 \/ neighbor >= NumVertices(g) THEN ProcessEdges(g, edges, i + 1, st)
         ELSE IF ~st.visited[neighbor]
              THEN ProcessEdges(g, edges, i + 1,
                       [visited |-> [st.visited EXCEPT ![neighbor] = TRUE],
                        reachableVertices |-> Append(st.reachableVertices, neighbor),
                        queue |-> Append(st.queue, neighbor)])
              ELSE ProcessEdges(g, edges, i + 1, st)

\* The main loop of BFS, run until the queue is empty.
RECURSIVE BFSLoop(_, _)
BFSLoop(g, st) ==
    IF Len(st.queue) = 0 THEN st.reachableVertices
    ELSE BFSLoop(g, ProcessEdges(g, GetEdges(g, Head(st.queue)), 1,
                        [st EXCEPT !.queue = Tail(st.queue)]))

\* BFS(graph, sources) as one call.
BFS(g, srcs) ==
    IF Len(srcs) = 0 THEN <<>>
    ELSE BFSLoop(g, SeedSources(g, srcs, 1,
                        [visited |-> [v \in 0..(NumVertices(g) - 1) |-> FALSE],
                         reachableVertices |-> <<>>,
                         queue |-> <<>>]))

\* The one good vertex without any FEC packet.
goodVertices_NoFEC(N, K) ==
    [fecState \in 1..1 |-> Shl1(N) - 1]

\* The "good" vertices of the analysis: all media bits set, any FEC bits.
goodVertices(N, K) ==
    [fecState \in 1..Shl1(K) |-> (Shl1(N) - 1) + (fecState - 1) * Shl1(N)]

(***************************************************************************)
(* Idle values of the variable groups a specification does not use.        *)
(***************************************************************************)
NoGraph == [kind |-> "none", numVertices |-> 0]

\* No GetEdges call has been made.
NoCall == [called |-> FALSE, vertex |-> 0, edges |-> <<>>, maskQueries |-> <<>>]

NoMask == [kind |-> "none", n |-> 0, k |-> 0]

BFSIdle ==
    /\ sources = <<>>
    /\ visited = <<>>
    /\ reachableVertices = <<>>
    /\ queue = <<>>
    /\ dequeued = <<>>
    /\ bfsPc = "idle"

GraphIdle ==
    /\ graph = NoGraph
    /\ BFSIdle
    /\ edgesOut = NoCall

NoGen == [pc |-> "none"]

CombIdle == gen = NoGen

NoChar == [N |-> 0, K |-> 0]

CharIdle ==
    /\ rcIn = NoChar
    /\ rcOut = NoChar

NoModel == [kind |-> "none"]
NoLog == [on |-> FALSE, calls |-> <<>>]

GeIdle ==
    /\ model = NoModel
    /\ cache = <<>>
    /\ mutex = [readers |-> {}, writer |-> 0]
    /\ th = <<>>
    /\ ops = 0
    /\ log = NoLog
    /\ numPackets = 0

NoPrinter == [pc |-> "none"]

PrintIdle == printer = NoPrinter

NoQuery == [kind |-> "none"]

MaskIdle == maskQ = NoQuery

NoCtor == [kind |-> "none"]

CtorIdle == ctor = NoCtor

NoLossQuery == [kind |-> "none"]

QueryIdle == lossQ = NoLossQuery

NoFactoryCall == [kind |-> "none"]

FactoryIdle == made = NoFactoryCall

NoFleet == <<>>

FleetIdle == fleet = NoFleet

(***************************************************************************)
(* BFS, one action per stage of the call.                                  *)
(***************************************************************************)
\* Entry of BFS up to the end of the seeding loop.
BFSStart(srcs) ==
    /\ bfsPc = "idle"
    /\ sources' = srcs
    /\ IF Len(srcs) = 0
       THEN /\ bfsPc' = "done"
            /\ UNCHANGED <<visited, reachableVertices, queue, dequeued>>
       ELSE LET st == SeedSources(graph, srcs, 1,
                          [visited |-> [v \in 0..(NumVertices(graph) - 1) |-> FALSE],
                           reachableVertices |-> <<>>,
                           queue |-> <<>>])
            IN /\ visited' = st.visited
               /\ reachableVertices' = st.reachableVertices
               /\ queue' = st.queue
               /\ dequeued' = <<>>
               /\ bfsPc' = "loop"
    /\ UNCHANGED <<graph, edgesOut>>
    /\ UNCHANGED nonGraphVars

\* The main loop taking the vertex enqueued last, as from a stack.
BFSStep_Stack ==
    /\ bfsPc = "loop"
    /\ Len(queue) > 0
    /\ LET current == queue[Len(queue)]
           st == ProcessEdges(graph, GetEdges(graph, current), 1,
                     [visited |-> visited,
                      reachableVertices |-> reachableVertices,
                      queue |-> SubSeq(queue, 1, Len(queue) - 1)])
       IN /\ visited' = st.visited
          /\ reachableVertices' = st.reachableVertices
          /\ queue' = st.queue
          /\ dequeued' = Append(dequeued, current)
    /\ UNCHANGED <<graph, sources, bfsPc, edgesOut>>
    /\ UNCHANGED nonGraphVars

\* One iteration of the main loop: dequeue a vertex and process its edges.
BFSStep ==
    /\ bfsPc = "loop"
    /\ Len(queue) > 0
    /\ LET current == Head(queue)
           st == ProcessEdges(graph, GetEdges(graph, current), 1,
                     [visited |-> visited,
                      reachableVertices |-> reachableVertices,
                      queue |-> Tail(queue)])
       IN /\ visited' = st.visited
          /\ reachableVertices' = st.reachableVertices
          /\ queue' = st.queue
          /\ dequeued' = Append(dequeued, current)
    /\ UNCHANGED <<graph, sources, bfsPc, edgesOut>>
    /\ UNCHANGED nonGraphVars

\* The queue is empty: BFS returns reachableVertices.
BFSReturn ==
    /\ bfsPc = "loop"
    /\ Len(queue) = 0
    /\ bfsPc' = "done"
    /\ UNCHANGED <<graph, sources, visited, reachableVertices, queue, dequeued, edgesOut>>
    /\ UNCHANGED nonGraphVars

(***************************************************************************)
(* Spec: a recovery graph over a mask, queried with GetEdges and searched  *)
(* from the good vertices as the analysis does.                            *)
(***************************************************************************)
MaskSizes(minSize) ==
    { nk \in (minSize..MaxN) \X (minSize..MaxK) : nk[1] + nk[2] <= MaxBits }

SimpleMasks ==
    UNION { { NewSimpleMask(pm, nk[1], nk[2]) : pm \in [1..nk[2] -> [1..nk[1] -> BOOLEAN]] } :
            nk \in MaskSizes(0) }

\* CreateMask without the K > N test.
InterleavedMaskFactory_CreateMask_NoOrderCheck(N, K) ==
    IF N <= 0 \/ K <= 0
    THEN [err |-> TRUE, mask |-> NoMask]
    ELSE [err |-> FALSE, mask |-> [kind |-> "interleaved", n |-> N, k |-> K]]

InterleavedMaskFactory_CreateMask(N, K) ==
    IF N <= 0 \/ K <= 0 \/ K > N
    THEN [err |-> TRUE, mask |-> NoMask]
    ELSE [err |-> FALSE, mask |-> [kind |-> "interleaved", n |-> N, k |-> K]]

InterleavedMasks ==
    { InterleavedMaskFactory_CreateMask(nk[1], nk[2]).mask : nk \in MaskSizes(1) } \ {NoMask}

Init ==
    /\ \E mask \in SimpleMasks \cup InterleavedMasks : graph = NewRecoveryGraph(mask)
    /\ BFSIdle
    /\ edgesOut = NoCall
    /\ CombIdle
    /\ CharIdle
    /\ GeIdle
    /\ PrintIdle
    /\ MaskIdle
    /\ CtorIdle
    /\ QueryIdle
    /\ FactoryIdle
    /\ FleetIdle

\* One GetEdges query of the graph (the graph is stateless: one query per
\* behaviour shows every result).
CallGetEdges ==
    /\ bfsPc = "idle"
    /\ ~edgesOut.called
    /\ \E vertex \in (-2)..(NumVertices(graph) + 1) :
           edgesOut' = [called |-> TRUE, vertex |-> vertex,
                        edges |-> GetEdges(graph, vertex),
                        maskQueries |-> RecoveryGraph_GetEdgesQueries(graph, vertex)]
    /\ UNCHANGED <<graph, sources, visited, reachableVertices, queue, dequeued, bfsPc>>
    /\ UNCHANGED nonGraphVars

RunAnalysisBFS ==
    /\ ~edgesOut.called
    /\ BFSStart(goodVertices(graph.N, graph.K))

Next ==
    \/ CallGetEdges
    \/ RunAnalysisBFS
    \/ BFSStep
    \/ BFSReturn

Spec == Init /\ [][Next]_vars

(***************************************************************************)
(* Recoverability, stated on delivery patterns without the graph: a parity *)
(* packet that is present rebuilds the one protected media packet that is  *)
(* missing.                                                                *)
(***************************************************************************)
RecoverySteps(mask, v) ==
    { v + Shl1(d) : d \in { d \in 0..(mask.n - 1) :
        /\ ~Bit(v, d)
        /\ \E j \in 0..(mask.k - 1) :
              /\ Bit(v, mask.n + j)
              /\ IsProtected(mask, d, j)
              /\ \A e \in (0..(mask.n - 1)) \ {d} :
                     IsProtected(mask, e, j) => Bit(v, e) } }

RECURSIVE RecoveryClosure(_, _)
RecoveryClosure(mask, S) ==
    LET T == S \cup UNION { RecoverySteps(mask, v) : v \in S }
    IN IF T = S THEN S ELSE RecoveryClosure(mask, T)

AllMediaPresent(mask, v) == \A d \in 0..(mask.n - 1) : Bit(v, d)

Recoverable(mask, v) ==
    \E w \in RecoveryClosure(mask, {v}) : AllMediaPresent(mask, w)

MissingMedia(mask, v) == Cardinality({ d \in 0..(mask.n - 1) : ~Bit(v, d) })

\* C1: when BFS over NewRecoveryGraph(mask) from the good vertices has
\* returned, a vertex of [0, 2^(N+K)) is in the result if and only if
\* repeated single-packet recovery steps lead from it to a state with all N
\* media bits set.
C1_ReachableIffRecoverable ==
    bfsPc = "done" =>
        \A v \in 0..(NumVertices(graph) - 1) :
            (v \in Range(reachableVertices)) <=> Recoverable(graph.mask, v)

\* C1 witness: a finished search whose result holds a vertex that needs two
\* chained recoveries and misses some vertex.
C1_Witness ==
    /\ bfsPc = "done"
    /\ \E v \in Range(reachableVertices) : MissingMedia(graph.mask, v) >= 2
    /\ \E v \in 0..(NumVertices(graph) - 1) : v \notin Range(reachableVertices)

Occurrences(s, x) == Cardinality({ i \in DOMAIN s : s[i] = x })

\* The parities the claim calls usable at a vertex.
UsableParities(g, vertex) ==
    { j \in 0..(g.K - 1) :
        /\ Bit(vertex, g.N + j)
        /\ \A d \in 0..(g.N - 1) : IsProtected(g.mask, d, j) => Bit(vertex, d) }

\* C2: for a vertex of [0, NumVertices()), GetEdges returns, for each usable
\* parity (its bit set, all its protected media packets present), one
\* destination per protected media packet, the vertex with that bit cleared,
\* and nothing else; a destination appears once per usable parity that
\* protects the packet.
C2_GetEdgesMultiset ==
    LET vertex == edgesOut.vertex
        edges == edgesOut.edges
        g == graph
    IN (edgesOut.called /\ vertex >= 0 /\ vertex < NumVertices(g)) =>
        /\ \A x \in Range(edges) :
               \E d \in 0..(g.N - 1) : Bit(vertex, d) /\ x = vertex - Shl1(d)
        /\ \A d \in 0..(g.N - 1) :
               Bit(vertex, d) =>
                   Occurrences(edges, vertex - Shl1(d)) =
                       Cardinality({ j \in UsableParities(g, vertex) :
                                        IsProtected(g.mask, d, j) })

\* C2 witness: a GetEdges result in which two usable parities emit the same
\* destination.
C2_Witness ==
    /\ edgesOut.called
    /\ Len(edgesOut.edges) >= 3
    /\ \E i, j \in DOMAIN edgesOut.edges : i # j /\ edgesOut.edges[i] = edgesOut.edges[j]

(***************************************************************************)
(* SpecBFS: BFS over an adjacency-list graph built with AddEdge, from any  *)
(* source list (out-of-range and repeated sources included).               *)
(***************************************************************************)
SeqsUpTo(S, n) == UNION { [1..m -> S] : m \in 0..n }

EdgeCount(g) ==
    LET RECURSIVE Sum(_)
        Sum(v) == IF v >= g.numVertices THEN 0 ELSE Len(g.adjList[v]) + Sum(v + 1)
    IN Sum(0)

InitBFS ==
    /\ \E numVertices \in 1..MaxVertices : graph = NewSimpleGraph(numVertices)
    /\ BFSIdle
    /\ edgesOut = NoCall
    /\ CombIdle
    /\ CharIdle
    /\ GeIdle
    /\ PrintIdle
    /\ MaskIdle
    /\ CtorIdle
    /\ QueryIdle
    /\ FactoryIdle
    /\ FleetIdle

AddEdge ==
    /\ bfsPc = "idle"
    /\ EdgeCount(graph) < MaxEdges
    /\ \E source, destination \in 0..NumVertices(graph) :
           graph' = SimpleGraph_AddEdge(graph, source, destination)
    /\ UNCHANGED <<sources, visited, reachableVertices, queue, dequeued, bfsPc, edgesOut>>
    /\ UNCHANGED nonGraphVars

RunBFS ==
    \E srcs \in SeqsUpTo((-1)..NumVertices(graph), MaxSources) : BFSStart(srcs)

NextBFS ==
    \/ AddEdge
    \/ RunBFS
    \/ BFSStep
    \/ BFSReturn

SpecBFS == InitBFS /\ [][NextBFS]_vars

\* A BFS call that has started keeps running: its loop is not suspended.
SpecBFSFair == SpecBFS /\ WF_vars(BFSStep) /\ WF_vars(BFSReturn)

ValidSources(g, srcs) ==
    { v \in Range(srcs) : v >= 0 /\ v < NumVertices(g) }

\* The vertices of g one edge away from a vertex of S.
Successors(g, S) ==
    { w \in 0..(NumVertices(g) - 1) : \E v \in S : w \in Range(GetEdges(g, v)) }

RECURSIVE ReachableFrom(_, _)
ReachableFrom(g, S) ==
    LET T == S \cup Successors(g, S)
    IN IF T = S THEN S ELSE ReachableFrom(g, T)

\* C3: when BFS has returned, its result holds exactly the vertices reachable
\* by zero or more edges from some valid source.
C3_BFSReachableSet ==
    bfsPc = "done" =>
        Range(reachableVertices) = ReachableFrom(graph, ValidSources(graph, sources))

\* C3 witness: a finished search that reached both vertices of a cycle and
\* left a vertex out, from a source list holding an out-of-range source.
C3_Witness ==
    /\ bfsPc = "done"
    /\ graph.kind = "simple"
    /\ \E v, w \in Range(reachableVertices) :
           /\ v # w
           /\ w \in Range(GetEdges(graph, v))
           /\ v \in Range(GetEdges(graph, w))
    /\ \E v \in 0..(NumVertices(graph) - 1) : v \notin Range(reachableVertices)
    /\ \E v \in Range(sources) : v < 0 \/ v >= NumVertices(graph)

(***************************************************************************)
(* generateCombinations.                                                   *)
(***************************************************************************)
\* a ^ b on non-negative ints.
RECURSIVE Xor(_, _)
Xor(a, b) ==
    IF a = 0 THEN b
    ELSE IF b = 0 THEN a
    ELSE (((a % 2) + (b % 2)) % 2) + 2 * Xor(a \div 2, b \div 2)

\* a | b on non-negative ints.
RECURSIVE Or(_, _)
Or(a, b) ==
    IF a = 0 THEN b
    ELSE IF b = 0 THEN a
    ELSE (IF a % 2 = 1 \/ b % 2 = 1 THEN 1 ELSE 0) + 2 * Or(a \div 2, b \div 2)

\* c & -c on a positive int: the rightmost set bit.
RECURSIVE RightmostSetBit(_)
RightmostSetBit(c) ==
    IF c = 0 THEN 0
    ELSE IF c % 2 = 1 THEN 1
    ELSE 2 * RightmostSetBit(c \div 2)

\* A callback that returns true on the values of a set.
SetCallback(trueOn) == [kind |-> "set", trueOn |-> trueOn]

\* The callback of hasNonRecoverablePattern: the delivery pattern of the loss
\* pattern is not in reachableSet.
NonRecoverableCallback(totalPackets, reachableSet) ==
    [kind |-> "nonRecoverable", totalPackets |-> totalPackets,
     reachableSet |-> reachableSet]

callback_MaskNotDecremented(cb, lossPattern) ==
    IF cb.kind = "set" THEN lossPattern \in cb.trueOn
    ELSE LET deliveryPattern == Xor(Shl1(cb.totalPackets), lossPattern)
         IN deliveryPattern \notin cb.reachableSet

callback(cb, lossPattern) ==
    IF cb.kind = "set" THEN lossPattern \in cb.trueOn
    ELSE LET deliveryPattern == Xor(Shl1(cb.totalPackets) - 1, lossPattern)
         IN deliveryPattern \notin cb.reachableSet

NextCombination_ShiftOne(combination, rightmostMovable, temp) ==
    Or(temp, (Xor(combination, temp) \div rightmostMovable) \div 2)

\* temp | (((combination ^ temp) / rightmostMovable) >> 2)
NextCombination(combination, rightmostMovable, temp) ==
    Or(temp, (Xor(combination, temp) \div rightmostMovable) \div 4)

GenStart_ZeroSkipsCallback(n, k, cb) ==
    LET base == [n |-> n, k |-> k, cb |-> cb, combination |-> 0,
                 maxCombination |-> 0, calls |-> <<>>, ret |-> FALSE]
    IN IF k = 0 \/ k > n
       THEN base @@ [pc |-> "done"]
       ELSE [base EXCEPT !.combination = Shl1(k) - 1,
                         !.maxCombination = (Shl1(k) - 1) * Shl1(n - k)]
            @@ [pc |-> "loop"]

\* Entry of generateCombinations up to the loop.
GenStart(n, k, cb) ==
    LET base == [n |-> n, k |-> k, cb |-> cb, combination |-> 0,
                 maxCombination |-> 0, calls |-> <<>>, ret |-> FALSE]
    IN IF k = 0
       THEN [base EXCEPT !.calls = <<0>>, !.ret = callback(cb, 0)] @@ [pc |-> "done"]
       ELSE IF k > n
       THEN base @@ [pc |-> "done"]
       ELSE [base EXCEPT !.combination = Shl1(k) - 1,
                         !.maxCombination = (Shl1(k) - 1) * Shl1(n - k)]
            @@ [pc |-> "loop"]

GenStep_IgnoresCallback(st) ==
    IF st.combination > st.maxCombination
    THEN [st EXCEPT !.pc = "done", !.ret = FALSE]
    ELSE LET called == [st EXCEPT !.calls = Append(@, st.combination)]
             rightmostMovable == RightmostSetBit(st.combination)
             temp == st.combination + rightmostMovable
         IN IF temp > st.maxCombination
            THEN [called EXCEPT !.pc = "done", !.ret = callback(st.cb, st.combination)]
            ELSE [called EXCEPT !.combination =
                      NextCombination(st.combination, rightmostMovable, temp)]

\* One test of the loop condition and, if it holds, one iteration.
GenStep(st) ==
    IF st.combination > st.maxCombination
    THEN [st EXCEPT !.pc = "done", !.ret = FALSE]
    ELSE LET called == [st EXCEPT !.calls = Append(@, st.combination)]
             rightmostMovable == RightmostSetBit(st.combination)
             temp == st.combination + rightmostMovable
         IN IF callback(st.cb, st.combination)
            THEN [called EXCEPT !.pc = "done", !.ret = TRUE]
            ELSE IF temp > st.maxCombination
            THEN [called EXCEPT !.pc = "done", !.ret = FALSE]
            ELSE [called EXCEPT !.combination =
                      NextCombination(st.combination, rightmostMovable, temp)]

RECURSIVE RunGen(_)
RunGen(st) == IF st.pc = "done" THEN st ELSE RunGen(GenStep(st))

\* The value generateCombinations returns.
generateCombinations(n, k, cb) == RunGen(GenStart(n, k, cb)).ret

(***************************************************************************)
(* SpecComb: one generateCombinations call, stepped through its loop, with *)
(* a callback that never returns true or returns true on one value.        *)
(***************************************************************************)
InitComb ==
    /\ GraphIdle
    /\ CharIdle
    /\ GeIdle
    /\ PrintIdle
    /\ MaskIdle
    /\ CtorIdle
    /\ QueryIdle
    /\ FactoryIdle
    /\ FleetIdle
    /\ gen = [pc |-> "idle"]

CombStart ==
    /\ gen.pc = "idle"
    /\ \E n \in 0..MaxCombN, k \in 0..(MaxCombN + 1) :
         \E trueOn \in {{}} \cup { {x} : x \in 0..(Shl1(n) - 1) } :
            gen' = GenStart(n, k, SetCallback(trueOn))
    /\ UNCHANGED nonCombVars

CombStep ==
    /\ gen.pc = "loop"
    /\ gen' = GenStep(gen)
    /\ UNCHANGED nonCombVars

NextComb ==
    \/ CombStart
    \/ CombStep

SpecComb == InitComb /\ [][NextComb]_vars

RECURSIVE PopCount(_)
PopCount(x) == IF x = 0 THEN 0 ELSE (x % 2) + PopCount(x \div 2)

RECURSIVE Binomial(_, _)
Binomial(n, k) ==
    IF k = 0 THEN 1
    ELSE IF k > n THEN 0
    ELSE Binomial(n - 1, k - 1) + Binomial(n - 1, k)

hasNonRecoverablePattern(N, K, totalPackets, numLost, reachableSet) ==
    generateCombinations(totalPackets, numLost,
                         NonRecoverableCallback(totalPackets, reachableSet))

RECURSIVE findMinLostFrom(_, _, _, _, _)
findMinLostFrom(N, K, totalPackets, reachableSet, numLost) ==
    IF numLost > totalPackets THEN -1
    ELSE IF hasNonRecoverablePattern(N, K, totalPackets, numLost, reachableSet)
    THEN numLost
    ELSE findMinLostFrom(N, K, totalPackets, reachableSet, numLost + 1)

findMinLostPacketsForNonRecovery_FromTwo(N, K, totalPackets, reachableSet) ==
    findMinLostFrom(N, K, totalPackets, reachableSet, 2)

findMinLostPacketsForNonRecovery(N, K, totalPackets, reachableSet) ==
    findMinLostFrom(N, K, totalPackets, reachableSet, 1)

\* The loss pattern with bits [startPos, startPos+consecutiveLen) set, built
\* bit by bit from i on.
RECURSIVE consecutiveLossPattern(_, _, _, _)
consecutiveLossPattern(lossPattern, i, startPos, consecutiveLen) ==
    IF i >= startPos + consecutiveLen THEN lossPattern
    ELSE consecutiveLossPattern(Or(lossPattern, Shl1(i)), i + 1, startPos, consecutiveLen)

RECURSIVE findMinConsecutiveFrom(_, _, _, _)
findMinConsecutiveFrom(totalPackets, reachableSet, consecutiveLen, startPos) ==
    IF consecutiveLen > totalPackets THEN -1
    ELSE IF startPos > totalPackets - consecutiveLen
    THEN findMinConsecutiveFrom(totalPackets, reachableSet, consecutiveLen + 1, 0)
    ELSE LET lossPattern == consecutiveLossPattern(0, startPos, startPos, consecutiveLen)
             deliveryPattern == Xor(Shl1(totalPackets) - 1, lossPattern)
         IN IF deliveryPattern \notin reachableSet
            THEN consecutiveLen
            ELSE findMinConsecutiveFrom(totalPackets, reachableSet,
                                        consecutiveLen, startPos + 1)

findMinConsecutiveLostForNonRecovery_FirstOffsetOnly(N, K, totalPackets, reachableSet) ==
    LET RECURSIVE Try(_)
        Try(consecutiveLen) ==
            IF consecutiveLen > totalPackets THEN -1
            ELSE IF Xor(Shl1(totalPackets) - 1,
                        consecutiveLossPattern(0, 0, 0, consecutiveLen)) \notin reachableSet
            THEN consecutiveLen
            ELSE Try(consecutiveLen + 1)
    IN Try(1)

\* The search for a failing run starting with the empty run.
findMinConsecutiveLostForNonRecovery_FromZero(N, K, totalPackets, reachableSet) ==
    findMinConsecutiveFrom(totalPackets, reachableSet, 0, 0)

findMinConsecutiveLostForNonRecovery(N, K, totalPackets, reachableSet) ==
    findMinConsecutiveFrom(totalPackets, reachableSet, 1, 0)

CalculateRecoveryCharacteristicsFromReachable(N, K, reachable) ==
    LET totalPackets == N + K
        reachableSet == Range(reachable)
    IN [MinLostPacketsForNonRecovery |->
            findMinLostPacketsForNonRecovery(N, K, totalPackets, reachableSet),
        MinConsecutiveLostForNonRecovery |->
            findMinConsecutiveLostForNonRecovery(N, K, totalPackets, reachableSet)]

(***************************************************************************)
(* SpecChar: CalculateRecoveryCharacteristicsFromReachable applied to any  *)
(* N, K with N+K <= MaxTotal and any slice of distinct vertices.           *)
(***************************************************************************)
\* The slice listing a set of ints in increasing order.
RECURSIVE SliceOf(_)
SliceOf(S) ==
    IF S = {} THEN <<>>
    ELSE LET m == CHOOSE x \in S : \A y \in S : x <= y
         IN <<m>> \o SliceOf(S \ {m})

InitChar ==
    /\ GraphIdle
    /\ CombIdle
    /\ GeIdle
    /\ PrintIdle
    /\ MaskIdle
    /\ CtorIdle
    /\ QueryIdle
    /\ FactoryIdle
    /\ FleetIdle
    /\ \E N \in 0..MaxTotal, K \in 0..MaxTotal :
          /\ N + K <= MaxTotal
          /\ \E S \in SUBSET (0..(Shl1(N + K) - 1)) :
                rcIn = [N |-> N, K |-> K, reachable |-> SliceOf(S)]
    /\ rcOut = NoChar

Calculate ==
    /\ rcOut = NoChar
    /\ rcOut' = CalculateRecoveryCharacteristicsFromReachable(rcIn.N, rcIn.K, rcIn.reachable)
    /\ UNCHANGED <<rcIn>>
    /\ UNCHANGED nonCharVars

NextChar == Calculate

SpecChar == InitChar /\ [][NextChar]_vars

\* The delivery pattern of N+K packets in which exactly the packets of the
\* set lost are missing.
RECURSIVE DeliveryWithout(_, _)
DeliveryWithout(total, lost) ==
    IF total = 0 THEN 0
    ELSE (IF (total - 1) \in lost THEN 0 ELSE Shl1(total - 1))
         + DeliveryWithout(total - 1, lost)

MinOrNone(S) == IF S = {} THEN -1 ELSE CHOOSE x \in S : \A y \in S : x <= y

\* C4: MinLostPacketsForNonRecovery is the smallest numLost in [1, N+K] for
\* which some set of exactly numLost of the N+K packets, when lost, leaves a
\* delivery pattern that is not in the reachable set, and -1 when there is
\* no such numLost.
C4_MinLostPackets ==
    rcOut # NoChar =>
        LET total == rcIn.N + rcIn.K
            failing == { numLost \in 1..total :
                            \E lost \in SUBSET (0..(total - 1)) :
                                /\ Cardinality(lost) = numLost
                                /\ DeliveryWithout(total, lost) \notin Range(rcIn.reachable) }
        IN rcOut.MinLostPacketsForNonRecovery = MinOrNone(failing)

\* C4 witness: a result of 2, found after every single loss was recoverable.
C4_Witness ==
    /\ rcOut # NoChar
    /\ rcIn.N + rcIn.K = MaxTotal
    /\ rcOut.MinLostPacketsForNonRecovery = 2

\* C5: MinConsecutiveLostForNonRecovery is the smallest runLength in
\* [1, N+K] for which some run of packets [start, start+runLength), with
\* 0 <= start <= N+K-runLength, when lost, leaves a delivery pattern that is
\* not in the reachable set, and -1 when there is no such run.
C5_MinConsecutiveLost ==
    rcOut # NoChar =>
        LET total == rcIn.N + rcIn.K
            failing == { runLength \in 1..total :
                            \E start \in 0..(total - runLength) :
                                DeliveryWithout(total, start..(start + runLength - 1))
                                    \notin Range(rcIn.reachable) }
        IN rcOut.MinConsecutiveLostForNonRecovery = MinOrNone(failing)

\* C5 witness: a run of two is the shortest failing run, and it does not
\* start at offset 0.
C5_Witness ==
    /\ rcOut # NoChar
    /\ rcIn.N + rcIn.K = MaxTotal
    /\ rcOut.MinConsecutiveLostForNonRecovery = 2
    /\ DeliveryWithout(MaxTotal, {0, 1}) \in Range(rcIn.reachable)


-----------------------------------------------------------------------------
(* Loss models.  float64 probabilities are modelled as exact non-negative   *)
(* fractions [n, d] in lowest terms, so equal values are equal records.     *)

RECURSIVE GCD(_, _)
GCD(a, b) == IF b = 0 THEN a ELSE GCD(b, a % b)

\* The fraction n/d in lowest terms.  n, d and their GCD are bound as values,
\* so each is evaluated once however deep the expression it stands in.
Rat(n, d) ==
    CHOOSE r \in { [n |-> p[1] \div p[3], d |-> p[2] \div p[3]] :
                     p \in { <<q[1], q[2], GCD(q[1], q[2])>> : q \in {<<n, d>>} } } : TRUE

RZero == Rat(0, 1)
ROne == Rat(1, 1)
RHalf == Rat(1, 2)

\* The operands are bound as values in the same way.
RAdd(x, y) ==
    CHOOSE r \in { Rat(p[1].n * p[2].d + p[2].n * p[1].d, p[1].d * p[2].d) :
                     p \in {<<x, y>>} } : TRUE
RMul(x, y) ==
    CHOOSE r \in { Rat(p[1].n * p[2].n, p[1].d * p[2].d) : p \in {<<x, y>>} } : TRUE
RDiv(x, y) ==
    CHOOSE r \in { Rat(p[1].n * p[2].d, p[1].d * p[2].n) : p \in {<<x, y>>} } : TRUE
\* 1.0 - x, for x in [0,1]
RCompl(x) == Rat(x.d - x.n, x.d)
RPositive(x) == x.n > 0

\* math.Pow(x, e) for an integer e >= 0; math.Pow(x, 0) is 1 for every x.
RECURSIVE RPow(_, _)
RPow(x, e) == IF e = 0 THEN ROne ELSE RMul(x, RPow(x, e - 1))

GridProbs == { Rat(i, ProbDen) : i \in 0..ProbDen }

NewRandomLossModel(p) == [kind |-> "random", P |-> p]

\* The counting loop of RandomLossModel.CalculateProbability from i on: the
\* bits of vertex below N that are set (set = TRUE) or clear (set = FALSE).
RECURSIVE CountBits(_, _, _, _)
CountBits(vertex, i, N, set) ==
    IF i >= N THEN 0
    ELSE (IF Bit(vertex, i) = set THEN 1 ELSE 0) + CountBits(vertex, i + 1, N, set)

\* RandomLossModel{P}.CalculateProbability(vertex, N)
RandomLossModel_CalculateProbability(m, vertex, N) ==
    IF N <= 0 THEN RZero
    ELSE LET onesCount == CountBits(vertex, 0, N, TRUE)
             zerosCount == CountBits(vertex, 0, N, FALSE)
         IN RMul(RPow(m.P, zerosCount), RPow(RCompl(m.P), onesCount))

RandomLossModel_GetAverageLossProbability(m) == m.P

\* NewGilbertElliotLossModel without the else branch: the steady state keeps
\* the zero values of the struct when there are no transitions.
NewGilbertElliotLossModel_NoFallback(pe0, pe1, p01, p10) ==
    LET denominator == RAdd(p01, p10) IN
    [ kind |-> "ge", Pe0 |-> pe0, Pe1 |-> pe1, P01 |-> p01, P10 |-> p10,
      steadyState0 |-> IF RPositive(denominator) THEN RDiv(p10, denominator) ELSE RZero,
      steadyState1 |-> IF RPositive(denominator) THEN RDiv(p01, denominator) ELSE RZero ]

NewGilbertElliotLossModel(pe0, pe1, p01, p10) ==
    LET denominator == RAdd(p01, p10) IN
    [ kind |-> "ge", Pe0 |-> pe0, Pe1 |-> pe1, P01 |-> p01, P10 |-> p10,
      steadyState0 |-> IF RPositive(denominator) THEN RDiv(p10, denominator) ELSE RHalf,
      steadyState1 |-> IF RPositive(denominator) THEN RDiv(p01, denominator) ELSE RHalf ]

NewGilbertLossModel(pe1, p01, p10) == NewGilbertElliotLossModel(RZero, pe1, p01, p10)

GetAverageLossProbability(m) ==
    RAdd(RMul(m.steadyState0, m.Pe0), RMul(m.steadyState1, m.Pe1))

DPRow_LossOnly(m, prev, packetDelivered) ==
    LET e0 == m.Pe0
        e1 == m.Pe1
    IN << RAdd(RMul(RMul(prev[1], RCompl(m.P01)), e0), RMul(RMul(prev[2], m.P10), e0)),
          RAdd(RMul(RMul(prev[1], m.P01), e1), RMul(RMul(prev[2], RCompl(m.P10)), e1)) >>

\* One row of the DP table from the previous one: dp[i] from dp[i-1].
DPRow(m, prev, packetDelivered) ==
    LET e0 == IF packetDelivered THEN RCompl(m.Pe0) ELSE m.Pe0
        e1 == IF packetDelivered THEN RCompl(m.Pe1) ELSE m.Pe1
    IN << RAdd(RMul(RMul(prev[1], RCompl(m.P01)), e0), RMul(RMul(prev[2], m.P10), e0)),
          RAdd(RMul(RMul(prev[1], m.P01), e1), RMul(RMul(prev[2], RCompl(m.P10)), e1)) >>

RECURSIVE DPTable(_, _, _, _)
DPTable(m, pattern, i, initState) ==
    IF i = 0 THEN (IF initState = 0 THEN <<ROne, RZero>> ELSE <<RZero, ROne>>)
    ELSE DPRow(m, DPTable(m, pattern, i - 1, initState), Bit(pattern, i - 1))

\* computePatternProbabilityDP returning dp[length][0] alone.
computePatternProbabilityDP_GoodStateOnly(m, pattern, length, initState) ==
    LET last == DPTable(m, pattern, length, initState) IN last[1]

computePatternProbabilityDP(m, pattern, length, initState) ==
    LET last == DPTable(m, pattern, length, initState) IN RAdd(last[1], last[2])


-----------------------------------------------------------------------------
(* The Gilbert-Elliott cache under concurrent callers.  A caller's frame is *)
(* its position in CalculateProbability / ClearCache with its locals; each  *)
(* lock operation and each access to the cache map is one step.             *)

cacheKey(pattern, length, initState) == <<pattern, length, initState>>

CachePut_Dropped(c, key, prob) == c

\* An insertion that keeps no other entry.
CachePut_Evicts(c, key, prob) ==
    [k \in {key} |-> prob]

\* m.cache[key] = prob
CachePut(c, key, prob) ==
    [k \in (DOMAIN c) \union {key} |-> IF k = key THEN prob ELSE c[k]]

\* sync.RWMutex: RLock waits for the writer; Lock waits for writer and readers.
CanRLock(mtx) == mtx.writer = 0
CanLock(mtx) == mtx.writer = 0 /\ mtx.readers = {}
RLock(mtx, t) == [mtx EXCEPT !.readers = @ \union {t}]
\* An RUnlock that leaves the caller among the readers.
RUnlock_Kept(mtx, t) == mtx
RUnlock(mtx, t) == [mtx EXCEPT !.readers = @ \ {t}]
Lock(mtx, t) == [mtx EXCEPT !.writer = t]
Unlock(mtx, t) == [mtx EXCEPT !.writer = 0]

IdleFrame ==
    [ pc |-> "idle", op |-> "none", vertex |-> 0, N |-> 0, initState |-> 0,
      exists |-> FALSE, prob |-> RZero, prob0 |-> RZero, result |-> RZero,
      dpRuns |-> 0 ]

\* calculatePatternProbability returns prob to CalculateProbability, which
\* calls it again for initState 1 or combines the two with the steady state.
RECURSIVE PatternReturn(_, _, _)

\* Entry of calculatePatternProbability: a pattern of length 0 has
\* probability 1.0, any other is looked up in the cache.
PatternEnter(m, f) ==
    IF f.N = 0 THEN PatternReturn(m, f, ROne)
    ELSE [f EXCEPT !.exists = FALSE, !.pc = "rlock"]

PatternReturn(m, f, prob) ==
    IF f.initState = 0
    THEN PatternEnter(m, [f EXCEPT !.prob0 = prob, !.initState = 1])
    ELSE [f EXCEPT !.result = RAdd(RMul(m.steadyState0, f.prob0),
                                   RMul(m.steadyState1, prob)),
                   !.pc = "idle"]

CalculateProbability_Enter_NegativeOnly(m, vertex, N) ==
    IF N < 0
    THEN [IdleFrame EXCEPT !.op = "calc", !.vertex = vertex, !.N = N, !.result = RZero]
    ELSE PatternEnter(m, [IdleFrame EXCEPT !.op = "calc", !.vertex = vertex, !.N = N,
                                           !.initState = 0])

\* CalculateProbability up to its first calculatePatternProbability call.
CalculateProbability_Enter(m, vertex, N) ==
    IF N <= 0
    THEN [IdleFrame EXCEPT !.op = "calc", !.vertex = vertex, !.N = N, !.result = RZero]
    ELSE PatternEnter(m, [IdleFrame EXCEPT !.op = "calc", !.vertex = vertex, !.N = N,
                                           !.initState = 0])

ClearCache_Enter == [IdleFrame EXCEPT !.op = "clear", !.pc = "clock"]

FrameKey(f) == cacheKey(f.vertex, f.N, f.initState)

\* The miss path after the read lock is released: the DP runs without a lock.
ComputeMiss_InsertUnlocked(m, f) ==
    [f EXCEPT !.prob = computePatternProbabilityDP(m, f.vertex, f.N, f.initState),
              !.dpRuns = @ + 1, !.pc = "insert"]

\* The miss path running the DP from the good state whatever initState is.
ComputeMiss_IgnoresInitState(m, f) ==
    [f EXCEPT !.prob = computePatternProbabilityDP(m, f.vertex, f.N, 0),
              !.dpRuns = @ + 1, !.pc = "lock"]

ComputeMiss(m, f) ==
    [f EXCEPT !.prob = computePatternProbabilityDP(m, f.vertex, f.N, f.initState),
              !.dpRuns = @ + 1, !.pc = "lock"]

\* Whether caller t at frame f can take its next step under mutex mtx.
CanStep(f, mtx) ==
    CASE f.pc = "idle" -> FALSE
      [] f.pc = "rlock" -> CanRLock(mtx)
      [] f.pc \in {"lock", "clock"} -> CanLock(mtx)
      [] OTHER -> TRUE

\* The next step of caller t: the new frame, cache and mutex.
StepFrame(m, t, f, c, mtx) ==
    CASE f.pc = "rlock" ->
           [f |-> [f EXCEPT !.pc = "lookup"], cache |-> c, mutex |-> RLock(mtx, t)]
      [] f.pc = "lookup" ->
           [f |-> IF FrameKey(f) \in DOMAIN c
                  THEN [f EXCEPT !.exists = TRUE, !.prob = c[FrameKey(f)], !.pc = "runlock"]
                  ELSE [f EXCEPT !.exists = FALSE, !.pc = "runlock"],
            cache |-> c, mutex |-> mtx]
      [] f.pc = "runlock" ->
           [f |-> IF f.exists THEN PatternReturn(m, f, f.prob)
                  ELSE [f EXCEPT !.pc = "compute"],
            cache |-> c, mutex |-> RUnlock(mtx, t)]
      [] f.pc = "compute" ->
           [f |-> ComputeMiss(m, f), cache |-> c, mutex |-> mtx]
      [] f.pc = "lock" ->
           [f |-> [f EXCEPT !.pc = "insert"], cache |-> c, mutex |-> Lock(mtx, t)]
      [] f.pc = "insert" ->
           [f |-> [f EXCEPT !.pc = "unlock"],
            cache |-> CachePut(c, FrameKey(f), f.prob), mutex |-> mtx]
      [] f.pc = "unlock" ->
           [f |-> PatternReturn(m, f, f.prob), cache |-> c, mutex |-> Unlock(mtx, t)]
      [] f.pc = "clock" ->
           [f |-> [f EXCEPT !.pc = "clear"], cache |-> c, mutex |-> Lock(mtx, t)]
      [] f.pc = "clear" ->
           [f |-> [f EXCEPT !.pc = "cunlock"], cache |-> <<>>, mutex |-> mtx]
      [] f.pc = "cunlock" ->
           [f |-> [f EXCEPT !.pc = "idle"], cache |-> c, mutex |-> Unlock(mtx, t)]

\* A call run to its return with no other caller active.
RECURSIVE RunCall(_, _, _, _, _)
RunCall(m, t, f, c, mtx) ==
    IF f.pc = "idle" THEN [f |-> f, cache |-> c, mutex |-> mtx]
    ELSE LET s == StepFrame(m, t, f, c, mtx) IN RunCall(m, t, s.f, s.cache, s.mutex)

GilbertElliot_CalculateProbability(m, c, vertex, N) ==
    RunCall(m, 1, CalculateProbability_Enter(m, vertex, N), c, [readers |-> {}, writer |-> 0])

LogEntry(f, c) ==
    [ op |-> f.op, vertex |-> f.vertex, N |-> f.N, result |-> f.result,
      dpRuns |-> f.dpRuns, cacheSize |-> Cardinality(DOMAIN c) ]

\* A sequential caller's completed calls are recorded as they return.
Logged(f, c) ==
    IF log.on /\ f.pc = "idle" THEN [log EXCEPT !.calls = Append(@, LogEntry(f, c))] ELSE log

\* A call that has returned leaves no frame behind.
Returned(f) == IF f.pc = "idle" THEN IdleFrame ELSE f

Callers == DOMAIN th

Call(t) ==
    /\ th[t].pc = "idle"
    /\ ops < MaxOps
    /\ \E N \in {0, numPackets} :
         \E vertex \in 0..(Shl1(N) - 1) :
            LET f == CalculateProbability_Enter(model, vertex, N) IN
               /\ th' = [th EXCEPT ![t] = Returned(f)]
               /\ log' = Logged(f, cache)
    /\ ops' = ops + 1
    /\ UNCHANGED <<model, cache, mutex, numPackets>>
    /\ UNCHANGED nonGeVars

CallClear(t) ==
    /\ th[t].pc = "idle"
    /\ ops < MaxOps
    /\ th' = [th EXCEPT ![t] = ClearCache_Enter]
    /\ ops' = ops + 1
    /\ UNCHANGED <<model, cache, mutex, log, numPackets>>
    /\ UNCHANGED nonGeVars

\* Caller t, at one of the positions pcs, takes its next step.
StepAt(t, pcs) ==
    /\ th[t].pc \in pcs
    /\ CanStep(th[t], mutex)
    /\ LET s == StepFrame(model, t, th[t], cache, mutex) IN
          /\ th' = [th EXCEPT ![t] = Returned(s.f)]
          /\ cache' = s.cache
          /\ mutex' = s.mutex
          /\ log' = Logged(s.f, s.cache)
    /\ UNCHANGED <<model, ops, numPackets>>
    /\ UNCHANGED nonGeVars

AcquireRead(t) == StepAt(t, {"rlock"})
Lookup(t) == StepAt(t, {"lookup"})
ReleaseRead(t) == StepAt(t, {"runlock"})
Compute(t) == StepAt(t, {"compute"})
AcquireWrite(t) == StepAt(t, {"lock"})
Insert(t) == StepAt(t, {"insert"})
ReleaseWrite(t) == StepAt(t, {"unlock"})
ClearAcquire(t) == StepAt(t, {"clock"})
ClearReplace(t) == StepAt(t, {"clear"})
ClearRelease(t) == StepAt(t, {"cunlock"})

\* The models of the cache runs: Gilbert channels that lose every packet in
\* the bad state, with both transition probabilities drawn from the grid.
CacheModels ==
    { NewGilbertLossModel(ROne, p01, p10) : p01 \in GridProbs, p10 \in GridProbs }

\* The models the concurrent callers share: symmetric Gilbert channels.
RaceModels == { NewGilbertLossModel(ROne, p, p) : p \in GridProbs }

InitGEWith(callers, logging, models, lens) ==
    /\ GraphIdle
    /\ CombIdle
    /\ CharIdle
    /\ PrintIdle
    /\ MaskIdle
    /\ CtorIdle
    /\ QueryIdle
    /\ FactoryIdle
    /\ FleetIdle
    /\ model \in models
    /\ cache = <<>>
    /\ mutex = [readers |-> {}, writer |-> 0]
    /\ th = [t \in callers |-> IdleFrame]
    /\ ops = 0
    /\ log = [on |-> logging, calls |-> <<>>]
    /\ numPackets \in lens

\* Concurrent callers race on the four cache keys of a one-packet configuration.
InitGE == InitGEWith(1..NumThreads, FALSE, RaceModels, {1})

NextGE ==
    \/ \E t \in Callers : Call(t)
    \/ \E t \in Callers : CallClear(t)
    \/ \E t \in Callers : AcquireRead(t)
    \/ \E t \in Callers : Lookup(t)
    \/ \E t \in Callers : ReleaseRead(t)
    \/ \E t \in Callers : Compute(t)
    \/ \E t \in Callers : AcquireWrite(t)
    \/ \E t \in Callers : Insert(t)
    \/ \E t \in Callers : ReleaseWrite(t)
    \/ \E t \in Callers : ClearAcquire(t)
    \/ \E t \in Callers : ClearReplace(t)
    \/ \E t \in Callers : ClearRelease(t)

SpecGE == InitGE /\ [][NextGE]_vars

\* One caller at a time: the same steps, with the completed calls recorded.
InitGESeq == InitGEWith({1}, TRUE, CacheModels, 1..MaxLen)

SpecGESeq == InitGESeq /\ [][NextGE]_vars


Reading(t) == th[t].pc = "lookup"
Writing(t) == th[t].pc \in {"insert", "clear"}

\* C7: under any interleaving of concurrent CalculateProbability and
\* ClearCache calls, a caller that looks the cache map up holds the read
\* lock, a caller that inserts an entry or replaces the map holds the
\* exclusive lock, and no caller writes the map while another caller reads
\* or writes it.
C7_CacheAccessLocked ==
    \A t \in Callers :
       /\ Reading(t) => t \in mutex.readers
       /\ Writing(t) => mutex.writer = t
       /\ Writing(t) => \A u \in Callers \ {t} : ~Reading(u) /\ ~Writing(u)

\* Two callers look the map up at the same time, both under the read lock,
\* while the cache holds an entry an earlier call has inserted.
C7_Witness ==
    /\ \E t \in Callers, u \in Callers :
          /\ t # u
          /\ Reading(t)
          /\ Reading(u)
          /\ {t, u} \subseteq mutex.readers
    /\ cache # <<>>


Calls == log.calls

SameCall(a, b) ==
    /\ a.op = "calc"
    /\ b.op = "calc"
    /\ a.vertex = b.vertex
    /\ a.N = b.N
    /\ a.N >= 1

\* C8: of two CalculateProbability calls with the same (vertex, N), N >= 1,
\* on one model, the later returns the value of the earlier; when it follows
\* directly it finds both entries (vertex, N, 0) and (vertex, N, 1) in the
\* cache and runs no DP; when only a ClearCache lies between them, the
\* ClearCache leaves the cache empty and the call runs the DP for both
\* entries again.
C8_CacheHitAndRecompute ==
    /\ \A i \in DOMAIN Calls : \A j \in DOMAIN Calls :
          (i < j /\ SameCall(Calls[i], Calls[j])) =>
             /\ Calls[j].result = Calls[i].result
             /\ (j = i + 1) => Calls[j].dpRuns = 0
             /\ (j = i + 2 /\ Calls[i + 1].op = "clear") =>
                   /\ Calls[i + 1].cacheSize = 0
                   /\ Calls[j].dpRuns = 2
    /\ \A i \in DOMAIN Calls :
          (i = Len(Calls) /\ Calls[i].op = "calc" /\ Calls[i].N >= 1 /\ th[1].pc = "idle") =>
             \A initState \in {0, 1} :
                /\ cacheKey(Calls[i].vertex, Calls[i].N, initState) \in DOMAIN cache
                /\ cache[cacheKey(Calls[i].vertex, Calls[i].N, initState)]
                     = computePatternProbabilityDP(model, Calls[i].vertex, Calls[i].N, initState)

\* A call, ClearCache, and the same call again on a model whose pattern has
\* a probability strictly between 0 and 1.
C8_Witness ==
    /\ Len(Calls) = 3
    /\ SameCall(Calls[1], Calls[3])
    /\ Calls[1].N = MaxLen
    /\ Calls[2].op = "clear"
    /\ Calls[3].dpRuns = 2
    /\ RPositive(Calls[3].result)
    /\ Calls[3].result # ROne


-----------------------------------------------------------------------------
(* Mask.IsProtected on the bit-pattern masks and the interleaved masks.     *)
(* A query's outcome is the value returned, or a panic.                     *)

Returns(value) == [panic |-> FALSE, value |-> value]
Panics == [panic |-> TRUE, value |-> FALSE]

\* data[i] of a Go slice: an index outside [0, len(data)) panics.
ByteAt(data, i) == IF i < 0 \/ i >= Len(data) THEN -1 ELSE data[i + 1]

\* (b & (1 << bitPos)) != 0, or a panic when the byte could not be read
TestBit(b, bitPos) == IF b < 0 THEN Panics ELSE Returns(Bit(b, bitPos))

bitMask_IsProtected(m, packetIndex, fecIndex) ==
    IF packetIndex < 0 \/ packetIndex >= 16 \/ fecIndex < 0 THEN Returns(FALSE)
    ELSE IF fecIndex * 2 > Len(m.data) THEN Returns(FALSE)
    ELSE LET byteOffset == fecIndex * 2 IN
         IF packetIndex < 8
         THEN TestBit(ByteAt(m.data, byteOffset), 7 - packetIndex)
         ELSE TestBit(ByteAt(m.data, byteOffset + 1), 7 - (packetIndex - 8))

\* The bitMask values the repository constructs.
BitMasks ==
    { [kind |-> "bit", data |-> <<255, 240>>, n |-> 12, k |-> 1],
      [kind |-> "bit", data |-> <<128, 0>>, n |-> 1, k |-> 1],
      [kind |-> "bit", data |-> <<255, 0, 0, 255>>, n |-> 16, k |-> 2] }

\* Mask.IsProtected with its outcome, dispatched on the implementation.
IsProtectedOutcome(m, packetIndex, fecIndex) ==
    IF m.kind = "bit" THEN bitMask_IsProtected(m, packetIndex, fecIndex)
    ELSE Returns(IsProtected(m, packetIndex, fecIndex))

InitMask ==
    /\ GraphIdle
    /\ CombIdle
    /\ CharIdle
    /\ GeIdle
    /\ PrintIdle
    /\ CtorIdle
    /\ QueryIdle
    /\ FactoryIdle
    /\ FleetIdle
    /\ \E m \in BitMasks \cup InterleavedMasks :
          maskQ = [kind |-> "mask", mask |-> m, called |-> FALSE,
                   packetIndex |-> 0, fecIndex |-> 0, out |-> Returns(FALSE)]

QueryIsProtected ==
    /\ maskQ.kind = "mask"
    /\ \E packetIndex \in -1..(maskQ.mask.n + 1), fecIndex \in -1..(maskQ.mask.k + 1) :
          maskQ' = [maskQ EXCEPT !.called = TRUE,
                                 !.packetIndex = packetIndex,
                                 !.fecIndex = fecIndex,
                                 !.out = IsProtectedOutcome(maskQ.mask, packetIndex, fecIndex)]
    /\ UNCHANGED nonMaskVars

NextMask ==
    \/ QueryIsProtected

SpecMask == InitMask /\ [][NextMask]_vars

QueryOutOfRange ==
    /\ maskQ.called
    /\ \/ maskQ.packetIndex < 0
       \/ maskQ.packetIndex >= maskQ.mask.n
       \/ maskQ.fecIndex < 0
       \/ maskQ.fecIndex >= maskQ.mask.k

\* C9: on every bitMask and InterleavedMask, IsProtected(packetIndex,
\* fecIndex) with packetIndex outside [0, N) or fecIndex outside [0, K)
\* returns false and does not fault.
C9_OutOfRangeIsFalse ==
    QueryOutOfRange => (~maskQ.out.panic /\ ~maskQ.out.value)


-----------------------------------------------------------------------------
(* printLossModelAnalysis: the probabilities of all 2^N delivery patterns   *)
(* under a random and a Gilbert-Elliott model, summed per model.            *)

GEModels ==
    { NewGilbertElliotLossModel(pe0, pe1, p01, p10) :
        pe0 \in GridProbs, pe1 \in GridProbs, p01 \in GridProbs, p10 \in GridProbs }

RandomModels == { NewRandomLossModel(p) : p \in GridProbs }

InitPrint ==
    /\ GraphIdle
    /\ CombIdle
    /\ CharIdle
    /\ MaskIdle
    /\ CtorIdle
    /\ QueryIdle
    /\ FactoryIdle
    /\ FleetIdle
    /\ model \in GEModels
    /\ cache = <<>>
    /\ mutex = [readers |-> {}, writer |-> 0]
    /\ th = <<>>
    /\ ops = 0
    /\ log = NoLog
    /\ numPackets \in 1..MaxLen
    /\ \E random \in RandomModels :
          printer = [ pc |-> "loop", random |-> random, mask |-> 0,
                      totalMasks |-> Shl1(numPackets),
                      probabilitySums |-> <<RZero, RZero>> ]

\* One iteration of the loop over mask: both models' probability of the
\* pattern is added to the model's sum; the Gilbert-Elliott call fills the cache.
PrintRow ==
    /\ printer.pc = "loop"
    /\ printer.mask < printer.totalMasks
    /\ LET r == RandomLossModel_CalculateProbability(printer.random, printer.mask, numPackets)
           g == GilbertElliot_CalculateProbability(model, cache, printer.mask, numPackets)
       IN /\ printer' = [printer EXCEPT
                           !.probabilitySums = << RAdd(@[1], r), RAdd(@[2], g.f.result) >>,
                           !.mask = @ + 1]
          /\ cache' = g.cache
          /\ mutex' = g.mutex
    /\ UNCHANGED <<model, th, ops, log, numPackets>>
    /\ UNCHANGED nonLossVars

\* The loop has ended: the sums are printed.
PrintSums ==
    /\ printer.pc = "loop"
    /\ printer.mask >= printer.totalMasks
    /\ printer' = [printer EXCEPT !.pc = "done"]
    /\ UNCHANGED geVars
    /\ UNCHANGED nonLossVars

NextPrint ==
    \/ PrintRow
    \/ PrintSums

SpecPrint == InitPrint /\ [][NextPrint]_vars

\* C10: for every N >= 1, every RandomLossModel with p in [0,1] and every
\* GilbertElliotLossModel with pe0, pe1, p01, p10 in [0,1] (p01 = p10 = 0
\* included), the sum of CalculateProbability(vertex, N) over all vertex in
\* [0, 2^N) is 1.
C10_ProbabilitiesSumToOne ==
    printer.pc = "done" =>
       /\ printer.probabilitySums[1] = ROne
       /\ printer.probabilitySums[2] = ROne

\* The sums of the longest patterns under a model without transitions
\* (p01 = p10 = 0) whose two states lose packets with different
\* probabilities strictly between 0 and 1.
C10_Witness ==
    /\ printer.pc = "done"
    /\ numPackets = MaxLen
    /\ printer.mask = Shl1(MaxLen)
    /\ model.P01 = RZero
    /\ model.P10 = RZero
    /\ model.Pe0 = RZero
    /\ model.Pe1 = RHalf
    /\ printer.random.P = RHalf
    /\ Cardinality(DOMAIN cache) = 2 * Shl1(MaxLen)


-----------------------------------------------------------------------------
(* NewRecoveryGraph on masks of any size: the vertex count as the int the   *)
(* shift produces.                                                          *)

\* Masks of up to IntBits + 1 media packets: the interleaved masks the
\* factory creates, and SimpleMasks without FEC packets.
WideMasks ==
    { InterleavedMaskFactory_CreateMask(N, K).mask : N \in 1..(IntBits + 1), K \in 1..MaxK }
    \cup { NewSimpleMask(<<>>, N, 0) : N \in 0..(IntBits + 1) }

InitNew ==
    /\ GraphIdle
    /\ CombIdle
    /\ CharIdle
    /\ GeIdle
    /\ PrintIdle
    /\ MaskIdle
    /\ QueryIdle
    /\ FactoryIdle
    /\ FleetIdle
    /\ \E mask \in WideMasks \ {NoMask} :
          ctor = [kind |-> "ctor", mask |-> mask, called |-> FALSE,
                  numVertices |-> GoShl1(0), N |-> 0, K |-> 0]

CallNewRecoveryGraph ==
    /\ ctor.kind = "ctor"
    /\ ~ctor.called
    /\ ctor' = [ctor EXCEPT !.called = TRUE,
                            !.numVertices = GoShl1(ctor.mask.n + ctor.mask.k),
                            !.N = ctor.mask.n,
                            !.K = ctor.mask.k]
    /\ UNCHANGED nonCtorVars

NextNew ==
    \/ CallNewRecoveryGraph

SpecNew == InitNew /\ [][NextNew]_vars

\* C11: for all N, K >= 0, NewRecoveryGraph(mask).NumVertices() is 2^(N+K),
\* where N = mask.N() and K = mask.K().
C11_NumVerticesIsPowerOfTwo ==
    ctor.called => ctor.numVertices = PowerOfTwo(ctor.mask.n + ctor.mask.k)


-----------------------------------------------------------------------------
\* C12: GetEdges(vertex) of a recovery graph returns the empty (nil)
\* sequence, and asks the mask nothing, for every vertex < 0 and every
\* vertex >= NumVertices().
C12_OutOfRangeVertexNoEdges ==
    (edgesOut.called /\ (edgesOut.vertex < 0 \/ edgesOut.vertex >= NumVertices(graph))) =>
       /\ edgesOut.edges = <<>>
       /\ edgesOut.maskQueries = <<>>

\* GetEdges(-1) on a graph whose FEC packets all protect a packet: -1 has
\* every bit set, so only the range test keeps edges from being returned.
C12_Witness ==
    /\ edgesOut.called
    /\ edgesOut.vertex = -1
    /\ graph.K = MaxK
    /\ \A fecIndex \in 0..(graph.K - 1) :
          \E packetIndex \in 0..(graph.N - 1) : IsProtected(graph.mask, packetIndex, fecIndex)
    /\ GetEdgesFrom(graph, <<>>, -1, 0) # <<>>
    /\ edgesOut.edges = <<>>


-----------------------------------------------------------------------------
\* The sources in [0, NumVertices()) in the order of their first occurrence.
RECURSIVE DistinctValidSources(_, _, _)
DistinctValidSources(g, srcs, i) ==
    IF i > Len(srcs) THEN <<>>
    ELSE LET rest == DistinctValidSources(g, srcs, i + 1)
             keep == /\ srcs[i] >= 0
                     /\ srcs[i] < NumVertices(g)
                     /\ \A j \in 1..(i - 1) : srcs[j] # srcs[i]
         IN IF keep THEN <<srcs[i]>> \o rest ELSE rest

NoRepeats(seq) == \A i, j \in DOMAIN seq : i # j => seq[i] # seq[j]

\* C13: out-of-range and repeated sources do not change what BFS returns:
\* the result is the result for the distinct valid sources, holds only
\* vertices of [0, NumVertices()), holds none of them twice, and is empty
\* when the source list is empty or has no valid source.
C13_BFSIgnoresBadSources ==
    bfsPc = "done" =>
       /\ reachableVertices = BFS(graph, DistinctValidSources(graph, sources, 1))
       /\ Range(reachableVertices) \subseteq 0..(NumVertices(graph) - 1)
       /\ NoRepeats(reachableVertices)
       /\ ValidSources(graph, sources) = {} => reachableVertices = <<>>

\* BFS has returned two or more vertices for a source list that names a
\* valid source twice.
C13_Witness ==
    /\ bfsPc = "done"
    /\ Len(sources) = MaxSources
    /\ \E i, j \in DOMAIN sources : i # j /\ sources[i] = sources[j]
    /\ ValidSources(graph, sources) # {}
    /\ Len(reachableVertices) >= 2


-----------------------------------------------------------------------------
\* A vertex is marked visited and enqueued in the same branch that appends
\* it to reachableVertices, so reachableVertices lists the enqueues in order.
EachVertexAtMostOnce ==
    bfsPc \in {"loop", "done"} /\ Len(sources) > 0 =>
       /\ reachableVertices = dequeued \o queue
       /\ NoRepeats(reachableVertices)
       /\ \A v \in 0..(NumVertices(graph) - 1) :
             visited[v] <=> v \in Range(reachableVertices)

\* C14: a BFS call returns on every finite graph, cycles and self-loops
\* included, and during the run every vertex is marked visited, enqueued
\* and dequeued at most once.
C14_BFSTerminates ==
    /\ []EachVertexAtMostOnce
    /\ (bfsPc = "loop") ~> (bfsPc = "done")

\* BFS has returned on a graph with a cycle through two vertices, both of
\* which it dequeued.
C14_Witness ==
    /\ bfsPc = "done"
    /\ Len(dequeued) >= 2
    /\ \E v, w \in Range(dequeued) :
          /\ v # w
          /\ w \in Range(GetEdges(graph, v))
          /\ v \in Range(GetEdges(graph, w))


-----------------------------------------------------------------------------
AllVertices(N, K) == 0..(Shl1(N + K) - 1)

\* C15: when the reachable slice holds all 2^(N+K) vertices,
\* CalculateRecoveryCharacteristicsFromReachable returns -1 for both
\* MinLostPacketsForNonRecovery and MinConsecutiveLostForNonRecovery.
C15_PerfectRecovery ==
    (rcOut # NoChar /\ AllVertices(rcIn.N, rcIn.K) \subseteq Range(rcIn.reachable)) =>
       /\ rcOut.MinLostPacketsForNonRecovery = -1
       /\ rcOut.MinConsecutiveLostForNonRecovery = -1

\* The call has returned for the largest packet count and a slice of all
\* its vertices.
C15_Witness ==
    /\ rcOut # NoChar
    /\ rcIn.N + rcIn.K = MaxTotal
    /\ rcIn.N >= 1
    /\ rcIn.K >= 1
    /\ Len(rcIn.reachable) = Shl1(MaxTotal)
    /\ Range(rcIn.reachable) = AllVertices(rcIn.N, rcIn.K)
    /\ rcOut.MinLostPacketsForNonRecovery = -1


-----------------------------------------------------------------------------
GenCalled == gen.pc \in {"loop", "done"}

\* C16: generateCombinations stops at the first callback invocation that
\* returns true: only the last invocation made so far can have returned
\* true, after it the call has returned, and the call returns true if some
\* invocation returned true and false otherwise.
C16_StopsAtFirstTrue ==
    GenCalled =>
       /\ \A i \in DOMAIN gen.calls :
             callback(gen.cb, gen.calls[i]) => (i = Len(gen.calls) /\ gen.pc = "done")
       /\ gen.pc = "done" =>
             (gen.ret <=> \E i \in DOMAIN gen.calls : callback(gen.cb, gen.calls[i]))

\* The call has returned true after three or more invocations, before the
\* enumeration was complete.
C16_Witness ==
    /\ gen.pc = "done"
    /\ gen.ret
    /\ gen.k >= 2
    /\ Len(gen.calls) >= 3
    /\ Len(gen.calls) < Binomial(gen.n, gen.k)
    /\ callback(gen.cb, gen.calls[Len(gen.calls)])


-----------------------------------------------------------------------------
\* C17: for n >= 0, generateCombinations(n, 0, cb) invokes cb once, with 0,
\* and returns what that invocation returned; generateCombinations(n, k, cb)
\* with k > n does not invoke cb and returns false.
C17_EdgeCases ==
    gen.pc = "done" =>
       /\ gen.k = 0 => (gen.calls = <<0>> /\ gen.ret = callback(gen.cb, 0))
       /\ gen.k > gen.n => (gen.calls = <<>> /\ gen.ret = FALSE)

\* The call with k = 0 has returned true, which its callback returned for 0.
C17_Witness ==
    /\ gen.pc = "done"
    /\ gen.k = 0
    /\ gen.n = MaxCombN
    /\ gen.calls = <<0>>
    /\ callback(gen.cb, 0)
    /\ gen.ret


-----------------------------------------------------------------------------
(* Queries of the two loss models: CalculateProbability on both for one     *)
(* (vertex, N), or their average loss probabilities and the steady state.   *)

\* The vertices a query is made with: any int for N <= 0, the N-bit
\* delivery patterns otherwise.
QueryVertices(N) == IF N <= 0 THEN (-1)..1 ELSE 0..(Shl1(N) - 1)

InitLoss ==
    /\ GraphIdle
    /\ CombIdle
    /\ CharIdle
    /\ PrintIdle
    /\ MaskIdle
    /\ CtorIdle
    /\ FactoryIdle
    /\ FleetIdle
    /\ model \in GEModels
    /\ cache = <<>>
    /\ mutex = [readers |-> {}, writer |-> 0]
    /\ th = <<>>
    /\ ops = 0
    /\ log = NoLog
    /\ numPackets = 0
    /\ \E random \in RandomModels :
          lossQ = [ kind |-> "query", random |-> random, called |-> "none",
                    vertex |-> 0, N |-> 0,
                    randomOut |-> RZero, geOut |-> RZero,
                    steadyState |-> <<RZero, RZero>> ]

QueryProbability ==
    /\ lossQ.kind = "query"
    /\ lossQ.called = "none"
    /\ \E N \in (-1)..MaxLen :
         \E vertex \in QueryVertices(N) :
            LET g == GilbertElliot_CalculateProbability(model, cache, vertex, N) IN
               /\ lossQ' = [lossQ EXCEPT
                               !.called = "CalculateProbability",
                               !.vertex = vertex,
                               !.N = N,
                               !.randomOut =
                                   RandomLossModel_CalculateProbability(lossQ.random, vertex, N),
                               !.geOut = g.f.result]
               /\ cache' = g.cache
               /\ mutex' = g.mutex
    /\ UNCHANGED <<model, th, ops, log, numPackets>>
    /\ UNCHANGED nonQueryVars

GetSteadyStateProbabilities(m) == <<m.steadyState0, m.steadyState1>>

QueryAverage ==
    /\ lossQ.kind = "query"
    /\ lossQ.called = "none"
    /\ lossQ' = [lossQ EXCEPT
                    !.called = "GetAverageLossProbability",
                    !.randomOut = RandomLossModel_GetAverageLossProbability(lossQ.random),
                    !.geOut = GetAverageLossProbability(model),
                    !.steadyState = GetSteadyStateProbabilities(model)]
    /\ UNCHANGED geVars
    /\ UNCHANGED nonQueryVars

NextLoss ==
    \/ QueryProbability
    \/ QueryAverage

SpecLoss == InitLoss /\ [][NextLoss]_vars

\* C18: CalculateProbability(vertex, N) is 0 for every N <= 0 and every
\* vertex, on the RandomLossModel and on the GilbertElliotLossModel.
C18_ZeroForNoPackets ==
    (lossQ.called = "CalculateProbability" /\ lossQ.N <= 0) =>
       /\ lossQ.randomOut = RZero
       /\ lossQ.geOut = RZero

\* A query with N = 0 and a negative vertex has returned, on
\* models that lose no packet, where every pattern of length 0 would
\* otherwise have probability 1.
C18_Witness ==
    /\ lossQ.called = "CalculateProbability"
    /\ lossQ.N = 0
    /\ lossQ.vertex = -1
    /\ lossQ.random.P = RZero
    /\ model.Pe0 = RZero
    /\ model.Pe1 = RZero
    /\ lossQ.geOut = RZero
    /\ cache = <<>>


\* The Gilbert-Elliott model has no transitions and loses packets with the
\* RandomLossModel's probability in both states.
ReducesToRandomLoss ==
    /\ model.P01 = RZero
    /\ model.P10 = RZero
    /\ model.Pe0 = lossQ.random.P
    /\ model.Pe1 = lossQ.random.P

\* C19: when p01 = p10 = 0 and pe0 = pe1 = p, the Gilbert-Elliott model's
\* CalculateProbability(v, N) equals that of RandomLossModel(p), for every
\* N >= 1 and every v in [0, 2^N).
C19_ReducesToRandomLoss ==
    (/\ lossQ.called = "CalculateProbability"
     /\ lossQ.N >= 1
     /\ ReducesToRandomLoss) => lossQ.geOut = lossQ.randomOut

\* Both models have answered 1/4 for a pattern of two packets, one delivered
\* and one lost, and the Gilbert-Elliott model has cached both start states.
C19_Witness ==
    /\ lossQ.called = "CalculateProbability"
    /\ ReducesToRandomLoss
    /\ lossQ.N = 2
    /\ lossQ.vertex = 1
    /\ lossQ.random.P = RHalf
    /\ lossQ.randomOut = Rat(1, 4)
    /\ lossQ.geOut = Rat(1, 4)
    /\ Cardinality(DOMAIN cache) = 2

\* C20: the steady state of a model built by NewGilbertElliotLossModel is
\* pi0 = p10/(p01+p10), pi1 = p01/(p01+p10) when p01+p10 > 0 and
\* pi0 = pi1 = 1/2 when p01+p10 = 0; pi0 + pi1 = 1 in every case, and
\* GetAverageLossProbability returns pi0*pe0 + pi1*pe1.
C20_SteadyState ==
    lossQ.called = "GetAverageLossProbability" =>
       LET pi0 == lossQ.steadyState[1]
           pi1 == lossQ.steadyState[2]
           sum == RAdd(model.P01, model.P10)
       IN /\ sum # RZero => /\ RMul(pi0, sum) = model.P10
                            /\ RMul(pi1, sum) = model.P01
          /\ sum = RZero => /\ pi0 = RHalf
                            /\ pi1 = RHalf
          /\ RAdd(pi0, pi1) = ROne
          /\ lossQ.geOut = RAdd(RMul(pi0, model.Pe0), RMul(pi1, model.Pe1))

\* A model without transitions that loses nothing in the good state and
\* everything in the bad one has reported the steady state (1/2, 1/2) and an
\* average loss of 1/2.
C20_Witness ==
    /\ lossQ.called = "GetAverageLossProbability"
    /\ model.P01 = RZero
    /\ model.P10 = RZero
    /\ model.Pe0 = RZero
    /\ model.Pe1 = ROne
    /\ lossQ.steadyState = <<RHalf, RHalf>>
    /\ lossQ.geOut = RHalf


-----------------------------------------------------------------------------
(* InterleavedMaskFactory.CreateMask with any pair of ints, then the        *)
(* methods of the mask it returned.                                         *)

InterleavedMask_N(m) == m.n

InterleavedMask_K(m) == m.k

InitFactory ==
    /\ GraphIdle
    /\ CombIdle
    /\ CharIdle
    /\ GeIdle
    /\ PrintIdle
    /\ MaskIdle
    /\ CtorIdle
    /\ QueryIdle
    /\ FleetIdle
    /\ made = [ kind |-> "factory", called |-> FALSE, N |-> 0, K |-> 0,
                err |-> FALSE, mask |-> NoMask,
                queried |-> FALSE, packetIndex |-> 0, fecIndex |-> 0,
                protected |-> FALSE ]

CallCreateMask ==
    /\ made.kind = "factory"
    /\ ~made.called
    /\ \E N \in (-1)..(MaxN + 1), K \in (-1)..(MaxK + 2) :
          LET r == InterleavedMaskFactory_CreateMask(N, K) IN
             made' = [made EXCEPT !.called = TRUE, !.N = N, !.K = K,
                                  !.err = r.err, !.mask = r.mask]
    /\ UNCHANGED nonFactoryVars

\* One IsProtected query of the mask the factory returned, around its range.
CallIsProtected ==
    /\ made.kind = "factory"
    /\ made.called
    /\ ~made.err
    /\ ~made.queried
    /\ \E packetIndex \in (-1)..InterleavedMask_N(made.mask),
          fecIndex \in (-1)..InterleavedMask_K(made.mask) :
          made' = [made EXCEPT
                      !.queried = TRUE,
                      !.packetIndex = packetIndex,
                      !.fecIndex = fecIndex,
                      !.protected =
                          InterleavedMask_IsProtected(made.mask, packetIndex, fecIndex)]
    /\ UNCHANGED nonFactoryVars

NextFactory ==
    \/ CallCreateMask
    \/ CallIsProtected

SpecFactory == InitFactory /\ [][NextFactory]_vars

InvalidConfiguration == made.N <= 0 \/ made.K <= 0 \/ made.K > made.N

\* C21: CreateMask(N, K) returns an error and no mask when N <= 0, K <= 0 or
\* K > N; otherwise a mask with N() = N, K() = K that protects every data
\* packet d of [0, N) by exactly one parity packet, d mod K.
C21_CreateMask ==
    made.called =>
       /\ InvalidConfiguration => /\ made.err
                                  /\ made.mask = NoMask
       /\ ~InvalidConfiguration =>
             /\ ~made.err
             /\ made.mask # NoMask
             /\ InterleavedMask_N(made.mask) = made.N
             /\ InterleavedMask_K(made.mask) = made.K
             /\ (made.queried /\ made.packetIndex \in 0..(made.N - 1)) =>
                   (made.protected <=> made.fecIndex = made.packetIndex % made.K)

\* CreateMask(3, 2) has returned a mask, and the mask has answered that
\* packet 2 is protected by parity packet 0.
C21_Witness ==
    /\ made.called
    /\ made.N = 3
    /\ made.K = 2
    /\ ~made.err
    /\ made.queried
    /\ made.packetIndex = 2
    /\ made.fecIndex = 0
    /\ made.protected


-----------------------------------------------------------------------------
(* The recovery graph searched from any one vertex, or from the good        *)
(* vertices, and queried with GetEdges.                                     *)

RunBFSFromVertex ==
    /\ ~edgesOut.called
    /\ \E source \in 0..(NumVertices(graph) - 1) : BFSStart(<<source>>)

NextReach ==
    \/ CallGetEdges
    \/ RunBFSFromVertex
    \/ RunAnalysisBFS
    \/ BFSStep
    \/ BFSReturn

SpecReach == Init /\ [][NextReach]_vars

DataBits(g) == 0..(g.N - 1)

ParityBits(g) == g.N..(g.N + g.K - 1)

\* w is v with exactly one data bit cleared and nothing else changed.
OneDataBitCleared(g, v, w) ==
    \E d \in DataBits(g) :
       /\ Bit(v, d)
       /\ ~Bit(w, d)
       /\ \A i \in (DataBits(g) \cup ParityBits(g)) \ {d} : Bit(w, i) = Bit(v, i)

\* v has the parity bits of s and no data bit that s lacks.
Below(g, v, s) ==
    /\ \A i \in ParityBits(g) : Bit(v, i) = Bit(s, i)
    /\ \A d \in DataBits(g) : Bit(v, d) => Bit(s, d)

\* C22: every edge leads to the vertex with exactly one data bit cleared and
\* the parity bits unchanged; every vertex BFS has reached has the parity
\* bits of some source and a subset of its data bits; and no vertex is
\* reached again from itself (the vertex a search started from is the
\* destination of no edge of a vertex the search reached).
C22_EdgesClearOneDataBit ==
    /\ edgesOut.called =>
          \A i \in DOMAIN edgesOut.edges :
             OneDataBitCleared(graph, edgesOut.vertex, edgesOut.edges[i])
    /\ bfsPc \in {"loop", "done"} =>
          /\ \A v \in Range(reachableVertices) :
                \E s \in Range(sources) : Below(graph, v, s)
          /\ \A v \in Range(reachableVertices) :
                \A s \in Range(sources) : s \notin Range(GetEdges(graph, v))

\* A search from the vertex 7 of a graph with N = 2, K = 1 has returned 7
\* and the two vertices with one data packet removed.
C22_Witness ==
    /\ graph.N = 2
    /\ graph.K = 1
    /\ sources = <<7>>
    /\ bfsPc = "done"
    /\ Range(reachableVertices) = {7, 6, 5}


-----------------------------------------------------------------------------
(* The cache under concurrent callers and under one caller, in one          *)
(* specification: a behaviour starts as either.                             *)

\* One caller alone on the keys the concurrent callers race on.
InitGELone == InitGEWith({1}, FALSE, RaceModels, {1})

InitCache ==
    \/ InitGE
    \/ InitGELone

SpecCache == InitCache /\ [][NextGE]_vars

\* The DP result for a key under the model's parameters.
FreshDP(key) == computePatternProbabilityDP(model, key[1], key[2], key[3])

\* Every entry of the cache, every value a caller has read from it and every
\* value a caller is about to write is the DP result for its key.
CacheHoldsDP ==
    /\ \A key \in DOMAIN cache : cache[key] = FreshDP(key)
    /\ \A t \in Callers :
          /\ (th[t].pc = "runlock" /\ th[t].exists) => th[t].prob = FreshDP(FrameKey(th[t]))
          /\ th[t].pc \in {"lock", "insert", "unlock"} =>
                th[t].prob = FreshDP(FrameKey(th[t]))

\* Caller t writes its entry in this step.
Writes(t) == th[t].pc = "insert" /\ th'[t].pc = "unlock"

\* A lone caller writes only keys the cache does not hold.
LoneCallerWritesOnce ==
    Cardinality(Callers) = 1 =>
       \A t \in Callers : Writes(t) => FrameKey(th[t]) \notin DOMAIN cache

\* C23: under any interleaving of concurrent CalculateProbability and
\* ClearCache calls every cache entry maps its key to the DP result for that
\* key, racing callers write the same value, and a value read from the cache
\* is the DP result; a caller without concurrency writes a key only when the
\* cache does not hold it, so at most once between two clears.
C23_CacheHoldsDPResults ==
    /\ []CacheHoldsDP
    /\ [][LoneCallerWritesOnce]_vars

\* Two callers have raced on one key: one is about to write the entry the
\* other has already written.
C23_Witness ==
    \E t \in Callers, u \in Callers :
       /\ t # u
       /\ th[t].pc = "insert"
       /\ FrameKey(th[t]) \in DOMAIN cache
       /\ th[u].pc = "idle"
       /\ th[t].prob = cache[FrameKey(th[t])]
       /\ th[t].prob # RZero



\* What CalculateProbability(vertex, N), N >= 1, returns on a model whose
\* cache is empty: the steady-state mix of the two DP results.
FreshProbability(m, vertex, N) ==
    RAdd(RMul(m.steadyState0, computePatternProbabilityDP(m, vertex, N, 0)),
         RMul(m.steadyState1, computePatternProbabilityDP(m, vertex, N, 1)))

\* A CalculateProbability call that returns in this step returns what it
\* returns on an empty cache, whatever calls and clears went before it.
ReturnsAsFresh ==
    Len(log'.calls) > Len(log.calls) =>
       LET call == log'.calls[Len(log'.calls)] IN
          (call.op = "calc" /\ call.N >= 1) =>
             call.result = FreshProbability(model, call.vertex, call.N)

\* This step is the map replacement of a ClearCache call.
ClearReplaces == \E t \in Callers : th[t].pc = "clear" /\ th'[t].pc = "cunlock"

\* A step keeps every entry of the cache, unless it is the replacement of
\* ClearCache, which leaves no entry.
GrowsOrCleared ==
    IF ClearReplaces
    THEN cache' = <<>>
    ELSE \A key \in DOMAIN cache : key \in DOMAIN cache' /\ cache'[key] = cache[key]

\* C24: between two ClearCache calls the set of keys in the cache only grows
\* (no step removes an entry), ClearCache removes every entry at once, and
\* no ClearCache changes the result of a later CalculateProbability call.
C24_CacheGrowsUntilCleared ==
    [][GrowsOrCleared /\ ReturnsAsFresh]_vars

\* The cache held the two entries of a call, was cleared, and the same call
\* after the clear has returned the same value and filled the cache again.
C24_Witness ==
    /\ Len(Calls) = 3
    /\ Calls[1].op = "calc"
    /\ Calls[1].cacheSize = 2
    /\ Calls[2].op = "clear"
    /\ Calls[2].cacheSize = 0
    /\ Calls[3].op = "calc"
    /\ Calls[3].vertex = Calls[1].vertex
    /\ Calls[3].N = Calls[1].N
    /\ Calls[3].N = MaxLen
    /\ Calls[3].result = Calls[1].result
    /\ Calls[3].result # RZero
    /\ Cardinality(DOMAIN cache) = 2


-----------------------------------------------------------------------------
(* Two GilbertElliotLossModel instances side by side, each with its own     *)
(* parameters, cache and mutex; every method is called on either, one call  *)
(* at a time.                                                               *)

\* A constructed instance: the struct's fields.
Instance(m) == [model |-> m, cache |-> <<>>, mutex |-> [readers |-> {}, writer |-> 0]]

\* ClearCache on every instance at once, as on a cache shared by all models.
Fleet_ClearCache_Shared(instances, i) ==
    [j \in DOMAIN instances |-> [instances[j] EXCEPT !.cache = <<>>]]

\* m.ClearCache() on instance i: the lock, the replacement of m.cache, the
\* deferred unlock.
Fleet_ClearCache(instances, i) ==
    LET r == RunCall(instances[i].model, 1, ClearCache_Enter,
                     instances[i].cache, instances[i].mutex)
    IN [instances EXCEPT ![i].cache = r.cache, ![i].mutex = r.mutex]

\* m.CalculateProbability(vertex, N) on instance i.
Fleet_CalculateProbability(instances, i, vertex, N) ==
    LET r == RunCall(instances[i].model, 1,
                     CalculateProbability_Enter(instances[i].model, vertex, N),
                     instances[i].cache, instances[i].mutex)
    IN [ instances |-> [instances EXCEPT ![i].cache = r.cache, ![i].mutex = r.mutex],
         result |-> r.f.result ]

NoFleetCall == [op |-> "none", on |-> 0, result |-> <<>>]

InitFleet ==
    /\ GraphIdle
    /\ CombIdle
    /\ CharIdle
    /\ GeIdle
    /\ PrintIdle
    /\ MaskIdle
    /\ CtorIdle
    /\ QueryIdle
    /\ FactoryIdle
    /\ \E m1 \in RaceModels, m2 \in RaceModels :
          fleet = [ instances |-> <<Instance(m1), Instance(m2)>>,
                    ops |-> 0, last |-> NoFleetCall ]

FleetCalculate(i) ==
    /\ fleet # NoFleet
    /\ fleet.ops < MaxOps
    /\ \E N \in 0..1 :
         \E vertex \in 0..(Shl1(N) - 1) :
            LET r == Fleet_CalculateProbability(fleet.instances, i, vertex, N) IN
               fleet' = [ instances |-> r.instances, ops |-> fleet.ops + 1,
                          last |-> [op |-> "CalculateProbability", on |-> i,
                                    result |-> <<r.result>>] ]
    /\ UNCHANGED nonFleetVars

FleetClear(i) ==
    /\ fleet # NoFleet
    /\ fleet.ops < MaxOps
    /\ fleet' = [ instances |-> Fleet_ClearCache(fleet.instances, i),
                  ops |-> fleet.ops + 1,
                  last |-> [op |-> "ClearCache", on |-> i, result |-> <<>>] ]
    /\ UNCHANGED nonFleetVars

FleetAverage(i) ==
    /\ fleet # NoFleet
    /\ fleet.ops < MaxOps
    /\ fleet' = [fleet EXCEPT
                    !.ops = @ + 1,
                    !.last = [op |-> "GetAverageLossProbability", on |-> i,
                              result |-> <<GetAverageLossProbability(
                                             fleet.instances[i].model)>>]]
    /\ UNCHANGED nonFleetVars

FleetSteadyState(i) ==
    /\ fleet # NoFleet
    /\ fleet.ops < MaxOps
    /\ fleet' = [fleet EXCEPT
                    !.ops = @ + 1,
                    !.last = [op |-> "GetSteadyStateProbabilities", on |-> i,
                              result |-> GetSteadyStateProbabilities(
                                             fleet.instances[i].model)]]
    /\ UNCHANGED nonFleetVars

NextFleet ==
    \/ \E i \in 1..2 : FleetCalculate(i)
    \/ \E i \in 1..2 : FleetClear(i)
    \/ \E i \in 1..2 : FleetAverage(i)
    \/ \E i \in 1..2 : FleetSteadyState(i)

SpecFleet == InitFleet /\ [][NextFleet]_vars

\* The call of this step leaves every field but the cache of its own
\* instance as it was, and the two getters leave the cache too.
OnlyOwnCacheChanges ==
    LET on == fleet'.last.on
        before == fleet.instances
        after == fleet'.instances
    IN /\ \A j \in DOMAIN before :
             /\ after[j].model = before[j].model
             /\ after[j].mutex = before[j].mutex
             /\ j # on => after[j].cache = before[j].cache
       /\ fleet'.last.op \in {"GetAverageLossProbability", "GetSteadyStateProbabilities"} =>
             after = before

\* C25: no operation of a GilbertElliotLossModel changes Pe0, Pe1, P01, P10
\* or the steady state; the cache is the only state an operation modifies,
\* and an operation on one model never changes the cache of another.
C25_OnlyOwnCacheChanges == [][OnlyOwnCacheChanges]_vars

\* Of two instances built with the same parameters the first has been
\* cleared, and the second still holds the two entries of its call.
C25_Witness ==
    /\ fleet # NoFleet
    /\ fleet.instances[1].model = fleet.instances[2].model
    /\ fleet.last.op = "ClearCache"
    /\ fleet.last.on = 1
    /\ fleet.instances[1].cache = <<>>
    /\ Cardinality(DOMAIN fleet.instances[2].cache) = 2
    /\ fleet.ops = 3


-----------------------------------------------------------------------------
(* BFS on both kinds of Graph: adjacency lists built with AddEdge and       *)
(* searched from any source list, and recovery graphs searched from the     *)
(* good vertices.                                                           *)

InitOrder ==
    \/ InitBFS
    \/ Init

AddEdgeToSimpleGraph ==
    /\ graph.kind = "simple"
    /\ AddEdge

RunBFSOnSimpleGraph ==
    /\ graph.kind = "simple"
    /\ RunBFS

RunBFSOnRecoveryGraph ==
    /\ graph.kind = "recovery"
    /\ RunAnalysisBFS

NextOrder ==
    \/ AddEdgeToSimpleGraph
    \/ RunBFSOnSimpleGraph
    \/ RunBFSOnRecoveryGraph
    \/ BFSStep
    \/ BFSReturn

SpecOrder == InitOrder /\ [][NextOrder]_vars

\* The vertices at most one edge from a vertex of S.
WithSuccessors(g, S) == S \cup UNION { Range(GetEdges(g, u)) : u \in S }

\* The number of edges of a shortest path from a vertex of S to v, where
\* seen holds the vertices at most d edges from S; -1 when there is no path.
RECURSIVE Distance(_, _, _, _)
Distance(g, seen, v, d) ==
    IF v \in seen THEN d
    ELSE IF WithSuccessors(g, seen) = seen THEN -1
    ELSE Distance(g, WithSuccessors(g, seen), v, d + 1)

\* C26: the slice BFS returns is in discovery order: the distinct valid
\* sources come first, in the order of their first occurrence in the source
\* list, followed by the other reachable vertices in non-decreasing order of
\* their shortest-path distance from the source set.
C26_DiscoveryOrder ==
    bfsPc = "done" =>
       LET first == DistinctValidSources(graph, sources, 1)
           dist == [i \in DOMAIN reachableVertices |->
                       Distance(graph, Range(first), reachableVertices[i], 0)]
       IN /\ Len(reachableVertices) >= Len(first)
          /\ SubSeq(reachableVertices, 1, Len(first)) = first
          /\ \A i \in DOMAIN reachableVertices :
                /\ dist[i] >= 0
                /\ i > Len(first) => dist[i] >= 1
                /\ i > 1 => dist[i - 1] <= dist[i]

\* BFS from the four good vertices of a recovery graph with N = 2, K = 2 has
\* returned them first, in order, then vertices one edge away and after
\* those a vertex two edges away.
C26_Witness ==
    /\ bfsPc = "done"
    /\ graph.kind = "recovery"
    /\ sources = <<3, 7, 11, 15>>
    /\ SubSeq(reachableVertices, 1, 4) = sources
    /\ Len(reachableVertices) >= 7
    /\ Distance(graph, Range(sources), reachableVertices[5], 0) = 1
    /\ Distance(graph, Range(sources), reachableVertices[Len(reachableVertices)], 0) = 2


-----------------------------------------------------------------------------
\* w has every packet of v, and possibly more.
Covers(g, w, v) == \A i \in DataBits(g) \cup ParityBits(g) : Bit(v, i) => Bit(w, i)

\* C27: the set BFS reaches from the good vertices is upward closed: with a
\* vertex v it holds every w of [0, 2^(N+K)) that has every bit of v set.
C27_UpwardClosed ==
    (bfsPc = "done" /\ sources = goodVertices(graph.N, graph.K)) =>
       \A v \in Range(reachableVertices) :
          \A w \in 0..(Shl1(graph.N + graph.K) - 1) :
             Covers(graph, w, v) => w \in Range(reachableVertices)

\* BFS from the good vertices of a graph with N = 2, K = 2 has returned the
\* vertex with both media packets lost and every vertex above it, but not
\* the vertex with one media packet and no FEC packet.
C27_Witness ==
    /\ bfsPc = "done"
    /\ graph.N = 2
    /\ graph.K = 2
    /\ sources = goodVertices(2, 2)
    /\ {12, 13, 14, 15} \subseteq Range(reachableVertices)
    /\ 1 \notin Range(reachableVertices)


-----------------------------------------------------------------------------
\* C28: the two results of CalculateRecoveryCharacteristicsFromReachable are
\* consistent: when MinConsecutiveLostForNonRecovery is not -1,
\* MinLostPacketsForNonRecovery is not -1 and is at most as large; when
\* MinLostPacketsForNonRecovery is -1 so is MinConsecutiveLostForNonRecovery;
\* and each is -1 or in [1, N+K], never 0.
C28_ResultsConsistent ==
    rcOut # NoChar =>
       LET minLost == rcOut.MinLostPacketsForNonRecovery
           minConsecutive == rcOut.MinConsecutiveLostForNonRecovery
           total == rcIn.N + rcIn.K
       IN /\ minConsecutive # -1 => (minLost # -1 /\ minLost <= minConsecutive)
          /\ minLost = -1 => minConsecutive = -1
          /\ minLost \in {-1} \cup (1..total)
          /\ minConsecutive \in {-1} \cup (1..total)

\* Two scattered losses defeat the recovery while no run shorter than all
\* three packets does.
C28_Witness ==
    /\ rcOut # NoChar
    /\ rcIn.N + rcIn.K = 3
    /\ rcOut.MinLostPacketsForNonRecovery = 2
    /\ rcOut.MinConsecutiveLostForNonRecovery = 3


-----------------------------------------------------------------------------
(* Concurrent callers whose calls run on: a caller that can take a step is  *)
(* not suspended forever.                                                   *)

StepSomeCaller ==
    \E t \in Callers :
       StepAt(t, {"rlock", "lookup", "runlock", "compute", "lock", "insert", "unlock",
                  "clock", "clear", "cunlock"})

\* The locking does not depend on the parameters: one Gilbert channel.
InitGEFair ==
    InitGEWith(1..NumThreads, FALSE, {NewGilbertLossModel(ROne, RHalf, RHalf)}, {1})

SpecGEFair == InitGEFair /\ [][NextGE]_vars /\ WF_vars(StepSomeCaller)

\* A caller holds the read lock only from RLock to RUnlock and the exclusive
\* lock only from Lock to Unlock; it holds neither while it computes or
\* waits for the exclusive lock, and none after its call has returned.
LocksHeldOnlyInside ==
    \A t \in Callers :
       /\ t \in mutex.readers <=> th[t].pc \in {"lookup", "runlock"}
       /\ mutex.writer = t <=> th[t].pc \in {"insert", "unlock", "clear", "cunlock"}
       /\ ~(t \in mutex.readers /\ mutex.writer = t)

\* While a call is in progress some caller can take its next step.
SomeCallerCanStep ==
    (\E t \in Callers : th[t].pc # "idle") =>
       \E t \in Callers : CanStep(th[t], mutex)

AllReturned ==
    /\ \A t \in Callers : th[t].pc = "idle"
    /\ mutex = [readers |-> {}, writer |-> 0]

\* C29: any finite set of concurrent CalculateProbability and ClearCache
\* calls on one model completes without deadlock: no caller holds the read
\* lock while it computes or requests the exclusive lock, no call returns
\* holding a lock, some call in progress can always proceed, and every call
\* in progress returns.
C29_NoDeadlock ==
    /\ []LocksHeldOnlyInside
    /\ []SomeCallerCanStep
    /\ (~AllReturned) ~> AllReturned

\* A caller waits for the exclusive lock while another caller holds the read
\* lock.
C29_Witness ==
    \E t \in Callers, u \in Callers :
       /\ th[t].pc = "lock"
       /\ ~CanStep(th[t], mutex)
       /\ th[u].pc = "lookup"
       /\ u \in mutex.readers


-----------------------------------------------------------------------------
(* The analysis of one configuration end to end, as main runs it: the mask, *)
(* the recovery graph, BFS from the good vertices, the characteristics of   *)
(* the reachable slice.                                                     *)

RunCharacteristics ==
    /\ bfsPc = "done"
    /\ rcOut = NoChar
    /\ rcIn' = [N |-> graph.N, K |-> graph.K, reachable |-> reachableVertices]
    /\ rcOut' = CalculateRecoveryCharacteristicsFromReachable(graph.N, graph.K,
                                                              reachableVertices)
    /\ UNCHANGED graphVars
    /\ UNCHANGED <<combVars, geVars, printVars, maskVars, ctorVars, queryVars,
                   factoryVars, fleetVars>>

NextAnalysis ==
    \/ RunAnalysisBFS
    \/ BFSStep
    \/ BFSReturn
    \/ RunCharacteristics

SpecAnalysis == Init /\ [][NextAnalysis]_vars

\* C30: for every interleaved mask with 1 <= K <= N the analysis gives
\* MinLostPacketsForNonRecovery = 2: every single lost packet, data or
\* parity, leaves a recoverable pattern, and the loss of a data packet d
\* together with its parity packet d mod K does not.
C30_InterleavedMinLostIsTwo ==
    (rcOut # NoChar /\ graph.mask.kind = "interleaved") =>
       LET total == graph.N + graph.K IN
          /\ rcOut.MinLostPacketsForNonRecovery = 2
          /\ \A lost \in 0..(total - 1) :
                DeliveryWithout(total, {lost}) \in Range(reachableVertices)
          /\ \A d \in 0..(graph.N - 1) :
                DeliveryWithout(total, {d, graph.N + (d % graph.K)})
                    \notin Range(reachableVertices)

\* The analysis of the interleaved mask with N = 3, K = 2 has returned 2.
C30_Witness ==
    /\ rcOut # NoChar
    /\ graph.mask.kind = "interleaved"
    /\ graph.N = 3
    /\ graph.K = 2
    /\ rcOut.MinLostPacketsForNonRecovery = 2
    /\ Len(reachableVertices) > 4

====
